---- MODULE Spec2Model ----
(***************************************************************************)
(* Model of aci_proactive_audit.py: the job monitor of nae_session, the    *)
(* NDI smart-event retrieval, the vetR data-format migration, the nested   *)
(* recommendation extractor with vetr_analyse_output, the SSD report       *)
(* analyzer, the merge of the per-source findings, the chunked upload of   *)
(* nae_session, its handle_request with login and its retrieval of the NAE *)
(* smart events.                                                           *)
(*                                                                         *)
(* Every component has its own specification (SpecMonitor, SpecNdi, ...);  *)
(* the variables of the other components stay at their idle values.        *)
(***************************************************************************)
EXTENDS Integers, Sequences, FiniteSets, TLC

VARIABLES
    \* ---- nae_session.nae_monitor_analysis
    monVersion,     \* self.version: "nae" (variant A) or "ndi" (variant B)
    monPc,          \* position of the monitor loop
    monStatus,      \* local variable status (Unbound before its first assignment)
    monRetryCount,  \* local variable __retry_count (variant B)
    monPolls,       \* history: number of listing requests issued
    monAbsentRun,   \* history: length of the current run of polls without the job
    monSeen,        \* history: the job was found on some earlier poll
    monLastFound,   \* history: the last poll found the job
    monLastStatus,  \* history: status the last poll reported for the job
    monFirstSeen,   \* history: number of the poll that first listed the job, 0 before
    \* ---- nae_session.ndi_get_smart_events_by_fabric_name
    ndiPc,               \* position in the function
    ndiOutput,           \* __output: finding key -> length of its event_list
    ndiOrder,            \* keys of __output in insertion order
    ndiTotalPageCount,   \* __total_page_count
    ndiCurrentPageCount, \* __current_page_count
    ndiEmptyEvents,      \* __empty_events
    ndiEventIdx,         \* position of the loop over __output.keys()
    ndiSummaryOffsets,   \* history: offsets of the summary requests, in order
    ndiDeclaredTotal,    \* history: totalResultsCount of the first summary response
    ndiSeenTypes,        \* history: finding keys of the entries of all summary pages
    ndiDetailLog,        \* history: <<key, offset>> of the detail requests, in order
    ndiFaithful,         \* history: every summary page had the entries the total promises
    ndiDetailDeclared,   \* history: finding key -> totalResultsCount of its first detail response
    \* ---- vetr_check_dataformat, vetr_convert_dataformat
    cnvPc,          \* position in the check and the conversion
    cnvData,        \* vetr_data: top-level key -> what the payload holds there
    cnvKeys,        \* vetr_data.keys() in payload order
    cnvIdx,         \* position of the loop over vetr_data.keys()
    cnvChildIdx,    \* position of the loop over vetr_data[key].keys()
    cnvOutput,      \* __conversion_output
    cnvWrites,      \* history: the targets assigned, in order
    \* ---- get_nested_dict_entries_containing_key, vetr_analyse_output
    extData,        \* __var of the outermost call
    extStack,       \* the frames of the recursive generator, outermost first
    extPath,        \* the list that is the default value of __path
    extYields,      \* history: the pairs yielded, each with the path as it was then
    vaPc,           \* position of vetr_analyse_output
    vaOutput,       \* __output of vetr_analyse_output
    vaWrites,       \* history: the keys of __output assigned, in order
    \* ---- ssd_analyze_output
    ssdInput,       \* ssd_data: the lines of the report
    ssdIdx,         \* position of the loop over the lines
    ssdPc,          \* position of ssd_analyze_output
    ssdUsage,       \* __ssd_usage: the entry of the node being read
    ssdAction,      \* __ssd_action (affected_nodes given as critical and major)
    ssdOutput,      \* __output
    ssdCrossed,     \* history: metric keys evaluated with a usage at or above 80
    ssdEvaluated,   \* history: the nodes whose entries were evaluated, in order
    ssdHist,        \* history: what the lines read so far say, kept apart from __ssd_usage
    \* ---- generate_audit_report: combining the findings
    mrgEnable,      \* cmd_parameters enable_vetr, enable_nae, enable_ssd
    mrgVetr,        \* vetR_audit_output
    mrgNae,         \* nae_audit_output
    mrgSsd,         \* ssd_audit_output
    mrgEmptyEvents, \* nae_empty_events
    mrgCombined,    \* combined_findings
    mrgPc,          \* position of the combination
    \* ---- nae_session.nae_upload_file_chunk
    upVersion,        \* self.version
    upPc,             \* position of the upload
    upContentSize,    \* content_size
    upAmountOfChunks, \* amount_of_chunks
    upIndex,          \* index
    upOffset,         \* offset
    upFilePos,        \* position of the file object f
    upResult,         \* result: the response of the last post
    upRequests,       \* history: the multipart fields of the posts, in order
    \* ---- nae_session.nae_get_smart_events_by_epoch_id
    naePc,               \* position in the function
    naeOutput,           \* __output: finding key -> its event_list
    naeTotalPageCount,   \* __total_page_count
    naeCurrentPageCount, \* __current_page_count
    naePages,            \* history: the pageId of the requests, in order
    naeReceived,         \* history: the events of the pages handled, in order
    naeLastAnswer,       \* history: what the transport gave the last request
    \* ---- nae_session.handle_request, nae_session.login
    reqVersion,     \* self.version
    reqPc,          \* "ready" between two calls, "exited" after exit(1), "crash"
    reqHeader,      \* self.authentication_header
    reqCalls,       \* history: number of calls of handle_request
    reqWire,        \* history: the requests put on the wire, in order
    reqResult,      \* what the last call of handle_request returned
    reqLast,        \* history: login outcome and transport answer of the last call
    \* ---- create_findings_summary_table
    sumFindings,    \* findings without main_document: finding key -> record
    sumOrder,       \* the keys of findings in the order "for __item in findings" takes
    sumIdx,         \* position of the loop in sumOrder
    sumPc,          \* "running", "returned", or "crash" after an uncaught exception
    sumTable,       \* __summary_table
    sumMain,        \* findings["main_document"]: the keys the function adds
    \* ---- export_findings, import_findings
    expValue,      \* combined_findings of the exporting run
    expDoc,        \* the document on disk, as JSON tokens
    expImported,   \* combined_findings of the importing run
    expPc,         \* position: exporting, exported, imported, exit_missing
    \* ---- vetr_render_actions, nae_render_smart_events: the ignore list
    ignSource,     \* the source whose findings are rendered: vetR, nae, ssd
    ignList,       \* ignore_list: source name -> set of finding names
    ignKeys,       \* the keys of the findings in the order the loop takes them
    ignIdx,        \* position of the loop in ignKeys
    ignOutput,     \* __rendered_output
    ignPc,         \* running, returned, or crash after an uncaught exception
    \* ---- generate_audit_report: the render step
    rndCombined,   \* combined_findings: key -> finding record, flag or main_document
    rndOrder,      \* the keys of combined_findings in the order of the dict
    rndParams,     \* cmd_parameters: customer_name and engineer_name
    rndEntry,      \* history: combined_findings when the render step began
    rndPc,         \* date, names, summary, rendering, or crash after an uncaught exception
    \* ---- nae_retrieve_smart_events and its caller
    retVersion,    \* version: nae or ndi
    retPc,         \* position in nae_retrieve_smart_events and in the caller
    retAnswer,     \* what the method of nae_session called last returned
    retResult,     \* what nae_retrieve_smart_events returned
    retCaller,     \* what the caller bound to nae_findings and nae_empty_events
    \* ---- get_nested_dict_entries_containing_key: successive traversals
    trvData,       \* the structure both traversals are given
    trvStack,      \* the frames of the running generator
    trvPath,       \* the list that is the default value of __path
    trvYields,     \* the pairs the running traversal yielded, the path as it was then
    trvRound,      \* 1 for the first traversal, 2 for the second
    trvFirst,      \* history: how the first traversal ended and what it yielded
    trvPc          \* iterating or ended

monVars == <<monVersion, monPc, monStatus, monRetryCount, monPolls,
             monAbsentRun, monSeen, monLastFound, monLastStatus, monFirstSeen>>

ndiVars == <<ndiPc, ndiOutput, ndiOrder, ndiTotalPageCount, ndiCurrentPageCount,
             ndiEmptyEvents, ndiEventIdx, ndiSummaryOffsets, ndiDeclaredTotal,
             ndiSeenTypes, ndiDetailLog, ndiFaithful, ndiDetailDeclared>>

cnvVars == <<cnvPc, cnvData, cnvKeys, cnvIdx, cnvChildIdx, cnvOutput, cnvWrites>>

extVars == <<extData, extStack, extPath, extYields, vaPc, vaOutput, vaWrites>>

ssdVars == <<ssdInput, ssdIdx, ssdPc, ssdUsage, ssdAction, ssdOutput, ssdCrossed,
             ssdEvaluated, ssdHist>>

mrgVars == <<mrgEnable, mrgVetr, mrgNae, mrgSsd, mrgEmptyEvents, mrgCombined, mrgPc>>

upVars == <<upVersion, upPc, upContentSize, upAmountOfChunks, upIndex, upOffset,
            upFilePos, upResult, upRequests>>

naeVars == <<naePc, naeOutput, naeTotalPageCount, naeCurrentPageCount, naePages,
             naeReceived, naeLastAnswer>>

reqVars == <<reqVersion, reqPc, reqHeader, reqCalls, reqWire, reqResult, reqLast>>

sumVars == <<sumFindings, sumOrder, sumIdx, sumPc, sumTable, sumMain>>

expVars == <<expValue, expDoc, expImported, expPc>>

ignVars == <<ignSource, ignList, ignKeys, ignIdx, ignOutput, ignPc>>

rndVars == <<rndCombined, rndOrder, rndParams, rndEntry, rndPc>>

retVars == <<retVersion, retPc, retAnswer, retResult, retCaller>>

trvVars == <<trvData, trvStack, trvPath, trvYields, trvRound, trvFirst, trvPc>>

vars == <<monVars, ndiVars, cnvVars, extVars, ssdVars, mrgVars, upVars, naeVars,
          reqVars, sumVars, expVars, ignVars, rndVars, retVars, trvVars>>

\* A component that does not run keeps every variable at this value.
Idle == "idle"

MonIdle ==
    /\ monVersion = Idle /\ monPc = Idle /\ monStatus = Idle /\ monRetryCount = Idle
    /\ monPolls = Idle /\ monAbsentRun = Idle /\ monSeen = Idle
    /\ monLastFound = Idle /\ monLastStatus = Idle /\ monFirstSeen = Idle

NdiIdle ==
    /\ ndiPc = Idle /\ ndiOutput = Idle /\ ndiOrder = Idle /\ ndiTotalPageCount = Idle
    /\ ndiCurrentPageCount = Idle /\ ndiEmptyEvents = Idle /\ ndiEventIdx = Idle
    /\ ndiSummaryOffsets = Idle /\ ndiDeclaredTotal = Idle /\ ndiSeenTypes = Idle
    /\ ndiDetailLog = Idle /\ ndiFaithful = Idle /\ ndiDetailDeclared = Idle

CnvIdle ==
    /\ cnvPc = Idle /\ cnvData = Idle /\ cnvKeys = Idle /\ cnvIdx = Idle
    /\ cnvChildIdx = Idle /\ cnvOutput = Idle /\ cnvWrites = Idle

ExtIdle ==
    /\ extData = Idle /\ extStack = Idle /\ extPath = Idle /\ extYields = Idle
    /\ vaPc = Idle /\ vaOutput = Idle /\ vaWrites = Idle

SsdIdle ==
    /\ ssdInput = Idle /\ ssdIdx = Idle /\ ssdPc = Idle /\ ssdUsage = Idle
    /\ ssdAction = Idle /\ ssdOutput = Idle /\ ssdCrossed = Idle /\ ssdEvaluated = Idle
    /\ ssdHist = Idle

MrgIdle ==
    /\ mrgEnable = Idle /\ mrgVetr = Idle /\ mrgNae = Idle /\ mrgSsd = Idle
    /\ mrgEmptyEvents = Idle /\ mrgCombined = Idle /\ mrgPc = Idle

UpIdle ==
    /\ upVersion = Idle /\ upPc = Idle /\ upContentSize = Idle /\ upAmountOfChunks = Idle
    /\ upIndex = Idle /\ upOffset = Idle /\ upFilePos = Idle /\ upResult = Idle
    /\ upRequests = Idle

NaeIdle ==
    /\ naePc = Idle /\ naeOutput = Idle /\ naeTotalPageCount = Idle
    /\ naeCurrentPageCount = Idle /\ naePages = Idle /\ naeReceived = Idle
    /\ naeLastAnswer = Idle

ReqIdle ==
    /\ reqVersion = Idle /\ reqPc = Idle /\ reqHeader = Idle /\ reqCalls = Idle
    /\ reqWire = Idle /\ reqResult = Idle /\ reqLast = Idle

SumIdle ==
    /\ sumFindings = Idle /\ sumOrder = Idle /\ sumIdx = Idle /\ sumPc = Idle
    /\ sumTable = Idle /\ sumMain = Idle

ExpIdle ==
    /\ expValue = Idle /\ expDoc = Idle /\ expImported = Idle /\ expPc = Idle

IgnIdle ==
    /\ ignSource = Idle /\ ignList = Idle /\ ignKeys = Idle /\ ignIdx = Idle
    /\ ignOutput = Idle /\ ignPc = Idle

RndIdle ==
    /\ rndCombined = Idle /\ rndOrder = Idle /\ rndParams = Idle /\ rndEntry = Idle /\ rndPc = Idle

RetIdle ==
    /\ retVersion = Idle /\ retPc = Idle /\ retAnswer = Idle /\ retResult = Idle /\ retCaller = Idle

TrvIdle ==
    /\ trvData = Idle /\ trvStack = Idle /\ trvPath = Idle /\ trvYields = Idle
    /\ trvRound = Idle /\ trvFirst = Idle /\ trvPc = Idle

\* Every component but the named one is idle.
IdleExcept(component) ==
    /\ IF component = "mon" THEN TRUE ELSE MonIdle
    /\ IF component = "ndi" THEN TRUE ELSE NdiIdle
    /\ IF component = "cnv" THEN TRUE ELSE CnvIdle
    /\ IF component = "ext" THEN TRUE ELSE ExtIdle
    /\ IF component = "ssd" THEN TRUE ELSE SsdIdle
    /\ IF component = "mrg" THEN TRUE ELSE MrgIdle
    /\ IF component = "up" THEN TRUE ELSE UpIdle
    /\ IF component = "nae" THEN TRUE ELSE NaeIdle
    /\ IF component = "req" THEN TRUE ELSE ReqIdle
    /\ IF component = "sum" THEN TRUE ELSE SumIdle
    /\ IF component = "exp" THEN TRUE ELSE ExpIdle
    /\ IF component = "ign" THEN TRUE ELSE IgnIdle
    /\ IF component = "rnd" THEN TRUE ELSE RndIdle
    /\ IF component = "ret" THEN TRUE ELSE RetIdle
    /\ IF component = "trv" THEN TRUE ELSE TrvIdle

\* The variables of the components other than the named one.
OthersOfMon ==
    <<ndiVars, cnvVars, extVars, ssdVars, mrgVars, upVars, naeVars, reqVars, sumVars,
      expVars, ignVars, rndVars, retVars, trvVars>>
OthersOfNdi ==
    <<monVars, cnvVars, extVars, ssdVars, mrgVars, upVars, naeVars, reqVars, sumVars,
      expVars, ignVars, rndVars, retVars, trvVars>>
OthersOfCnv ==
    <<monVars, ndiVars, extVars, ssdVars, mrgVars, upVars, naeVars, reqVars, sumVars,
      expVars, ignVars, rndVars, retVars, trvVars>>
OthersOfExt ==
    <<monVars, ndiVars, cnvVars, ssdVars, mrgVars, upVars, naeVars, reqVars, sumVars,
      expVars, ignVars, rndVars, retVars, trvVars>>
OthersOfSsd ==
    <<monVars, ndiVars, cnvVars, extVars, mrgVars, upVars, naeVars, reqVars, sumVars,
      expVars, ignVars, rndVars, retVars, trvVars>>
OthersOfMrg ==
    <<monVars, ndiVars, cnvVars, extVars, ssdVars, upVars, naeVars, reqVars, sumVars,
      expVars, ignVars, rndVars, retVars, trvVars>>
OthersOfUp ==
    <<monVars, ndiVars, cnvVars, extVars, ssdVars, mrgVars, naeVars, reqVars, sumVars,
      expVars, ignVars, rndVars, retVars, trvVars>>
OthersOfNae ==
    <<monVars, ndiVars, cnvVars, extVars, ssdVars, mrgVars, upVars, reqVars, sumVars,
      expVars, ignVars, rndVars, retVars, trvVars>>
OthersOfSum ==
    <<monVars, ndiVars, cnvVars, extVars, ssdVars, mrgVars, upVars, naeVars, reqVars,
      expVars, ignVars, rndVars, retVars, trvVars>>
OthersOfReq ==
    <<monVars, ndiVars, cnvVars, extVars, ssdVars, mrgVars, upVars, naeVars, sumVars,
      expVars, ignVars, rndVars, retVars, trvVars>>
OthersOfExp ==
    <<monVars, ndiVars, cnvVars, extVars, ssdVars, mrgVars, upVars, naeVars, reqVars,
      sumVars, ignVars, rndVars, retVars, trvVars>>
OthersOfIgn ==
    <<monVars, ndiVars, cnvVars, extVars, ssdVars, mrgVars, upVars, naeVars, reqVars,
      sumVars, expVars, rndVars, retVars, trvVars>>
OthersOfRnd ==
    <<monVars, ndiVars, cnvVars, extVars, ssdVars, mrgVars, upVars, naeVars, reqVars,
      sumVars, expVars, ignVars, retVars, trvVars>>
OthersOfRet ==
    <<monVars, ndiVars, cnvVars, extVars, ssdVars, mrgVars, upVars, naeVars, reqVars,
      sumVars, expVars, ignVars, rndVars, trvVars>>
OthersOfTrv ==
    <<monVars, ndiVars, cnvVars, extVars, ssdVars, mrgVars, upVars, naeVars, reqVars,
      sumVars, expVars, ignVars, rndVars, retVars>>

(***************************************************************************)
(* nae_session.nae_monitor_analysis                                        *)
(***************************************************************************)

\* Bound on the number of listing requests of one monitored job.
MaxPolls == 9

\* Value of a local variable that has not been assigned yet.
Unbound == "<unbound>"

\* Status strings a listing may report: both vocabularies and a foreign one.
NaeVocabulary == {"ANALYSIS_NOT_STARTED", "ANALYSIS_IN_PROGRESS", "ANALYSIS_COMPLETED"}
NdiVocabulary == {"QUEUED", "SCHEDULED", "RUNNING", "COMPLETE"}
ServerStatuses == NaeVocabulary \cup NdiVocabulary \cup {"FAILED"}

\* Variant A leaving the loop as soon as the analysis is in progress.
NaeStatusStepEarlyBreak(status) ==
    IF status = "ANALYSIS_NOT_STARTED" THEN "sleep"
    ELSE IF status = "ANALYSIS_IN_PROGRESS" THEN "break"
    ELSE IF status = "ANALYSIS_COMPLETED" THEN "break"
    ELSE "exit"

\* The if/elif chain over status of variant A: keep polling, leave the loop, exit(1).
NaeStatusStep(status) ==
    IF status = "ANALYSIS_NOT_STARTED" THEN "sleep"
    ELSE IF status = "ANALYSIS_IN_PROGRESS" THEN "sleep"
    ELSE IF status = "ANALYSIS_COMPLETED" THEN "break"
    ELSE "exit"

\* Variant B with the final else of the chain lost: an unknown status only logs.
NdiStatusStepNoExit(status) ==
    IF status = "COMPLETE" THEN "break" ELSE "sleep"

\* The if/elif chain over status of variant B.
NdiStatusStep(status) ==
    IF status = "QUEUED" THEN "sleep"
    ELSE IF status = "SCHEDULED" THEN "sleep"
    ELSE IF status = "RUNNING" THEN "sleep"
    ELSE IF status = "COMPLETE" THEN "break"
    ELSE "exit"

\* Wait upto 1 min (6x10s) for the offline analysis to be present
MaxRetryCount == 6

\* Where the loop stands after the status chain answered step.
MonAfterStatus(step) ==
    IF step = "sleep" THEN "polling"
    ELSE IF step = "break" THEN "done"
    ELSE "fatal_status"

MonInit ==
    /\ monVersion \in {"nae", "ndi"}
    /\ monPc = "polling"
    /\ monStatus = Unbound
    /\ monRetryCount = 0
    /\ monPolls = 0
    /\ monAbsentRun = 0
    /\ monSeen = FALSE
    /\ monLastFound = FALSE
    /\ monLastStatus = Unbound
    /\ monFirstSeen = 0

\* History variables of one poll that saw the job (found) with status st.
MonRecord(found, st) ==
    /\ monPolls' = monPolls + 1
    /\ monAbsentRun' = IF found THEN 0 ELSE monAbsentRun + 1
    /\ monSeen' = (monSeen \/ found)
    /\ monLastFound' = found
    /\ monLastStatus' = IF found THEN st ELSE Unbound
    /\ monFirstSeen' = IF found /\ ~monSeen THEN monPolls + 1 ELSE monFirstSeen

\* One iteration of the while loop of variant A: the request, the search of
\* the listing, the status chain. status keeps its old value when the job
\* is not listed; reading it unassigned raises UnboundLocalError.
MonPollNae(found, st) ==
    /\ monVersion = "nae"
    /\ monPc = "polling"
    /\ monPolls < MaxPolls
    /\ monStatus' = IF found THEN st ELSE monStatus
    /\ monPc' = IF monStatus' = Unbound THEN "crash"
                ELSE MonAfterStatus(NaeStatusStep(monStatus'))
    /\ MonRecord(found, st)
    /\ UNCHANGED <<monRetryCount, OthersOfMon>>

\* Variant B giving up at the first poll that does not list the job.
NdiNotFoundStepNoRetry(retryCount) == "fatal_notfound"

\* "if not found" of variant B: retry while the count is below the maximum.
NdiNotFoundStep(retryCount) ==
    IF retryCount < MaxRetryCount THEN "polling" ELSE "fatal_notfound"

\* One iteration of the while loop of variant B.
MonPollNdi(found, st) ==
    /\ monVersion = "ndi"
    /\ monPc = "polling"
    /\ monPolls < MaxPolls
    /\ monStatus' = IF found THEN st ELSE monStatus
    /\ monPc' = IF ~found THEN NdiNotFoundStep(monRetryCount)
                ELSE MonAfterStatus(NdiStatusStep(monStatus'))
    /\ MonRecord(found, st)
    /\ UNCHANGED <<monRetryCount, OthersOfMon>>

\* handle_request ends the run on a timeout, a connection error or a
\* status code it does not accept.
MonTransportFailure ==
    /\ monPc = "polling"
    /\ monPolls < MaxPolls
    /\ monPc' = "fatal_transport"
    /\ monPolls' = monPolls + 1
    /\ UNCHANGED <<monVersion, monStatus, monRetryCount, monAbsentRun,
                   monSeen, monLastFound, monLastStatus, monFirstSeen, OthersOfMon>>

MonPoll ==
    \E found \in BOOLEAN, st \in ServerStatuses :
        /\ (MonPollNae(found, st) \/ MonPollNdi(found, st))
        /\ UNCHANGED monVersion

InitMonitor == MonInit /\ IdleExcept("mon")
NextMonitor == MonPoll \/ MonTransportFailure
SpecMonitor == InitMonitor /\ [][NextMonitor]_vars

\* The polls the job may be missing from the listing before it is listed.
MaxAbsentPolls == 5

\* The statuses of a job that is not finished yet, and of a finished one.
InProgressStatuses(version) ==
    IF version = "nae" THEN {"ANALYSIS_NOT_STARTED", "ANALYSIS_IN_PROGRESS"}
    ELSE {"QUEUED", "SCHEDULED", "RUNNING"}
CompleteStatus(version) == IF version = "nae" THEN "ANALYSIS_COMPLETED" ELSE "COMPLETE"

\* A poll of variant B that does not list the job yet: only among the first
\* MaxAbsentPolls polls, and not after the job was listed.
MonLiveAbsent ==
    /\ monVersion = "ndi"
    /\ monPolls < MaxAbsentPolls
    /\ ~monSeen
    /\ MonPollNdi(FALSE, Unbound)
    /\ UNCHANGED monVersion

\* A poll that lists the job as not finished yet, whether or not polls
\* without the job came before; the last poll the bound leaves is kept for
\* the completion.
MonLiveInProgress ==
    /\ monPolls + 1 < MaxPolls
    /\ \E st \in InProgressStatuses(monVersion) :
          MonPollNae(TRUE, st) \/ MonPollNdi(TRUE, st)
    /\ UNCHANGED monVersion

\* A poll that lists the job as complete.
MonLiveComplete ==
    /\ MonPollNae(TRUE, CompleteStatus(monVersion))
          \/ MonPollNdi(TRUE, CompleteStatus(monVersion))
    /\ UNCHANGED monVersion

\* The monitoring of a job the server lists, after at most MaxAbsentPolls
\* polls in variant B and from the first poll in variant A, and reports
\* complete in the end. The loop polls again after every sleep.
NextMonitorLive == MonLiveAbsent \/ MonLiveInProgress \/ MonLiveComplete
SpecMonitorLive == InitMonitor /\ [][NextMonitorLive]_vars /\ WF_vars(NextMonitorLive)

\* Positions in which the monitor has ended the run without success.
MonFatal == {"fatal_status", "fatal_notfound", "fatal_transport", "crash"}

\* C1: in variant B, once the job has been absent from the listing on 7
\* consecutive polls the operation has terminated fatally (the not-found
\* retry is bounded by 6 retries after the first absent poll).
C1_NotFoundRetryBounded ==
    (monVersion = "ndi" /\ monAbsentRun >= MaxRetryCount + 1) => monPc \in MonFatal

\* C8: in variant A, a poll whose listing does not contain the job ends the
\* monitoring fatally, on the first poll and on a later poll alike: the
\* loop is not left waiting for another poll.
C8_AbsenceFatalInVariantA ==
    (monVersion = "nae" /\ monPolls > 0 /\ ~monLastFound) => monPc \in MonFatal

\* The last poll found the job with a status outside the variant's vocabulary.
MonUnrecognisedStatus ==
    /\ monLastFound
    /\ monLastStatus \notin (IF monVersion = "nae" THEN NaeVocabulary ELSE NdiVocabulary)

\* C9: in both variants a poll that finds the job with a status outside the
\* variant's vocabulary terminates the run at once; no further poll is issued.
C9_UnrecognisedStatusFatal ==
    MonUnrecognisedStatus => (monPc = "fatal_status" /\ ~ENABLED NextMonitor)

\* Variant B received a status of variant A's vocabulary and ended the run.
C9_Witness ==
    /\ monVersion = "ndi"
    /\ monLastFound
    /\ monLastStatus = "ANALYSIS_COMPLETED"
    /\ monPc = "fatal_status"
    /\ monPolls > 1

\* The status that ends the monitoring with success, and the statuses on
\* which the variant sleeps and polls again.
MonTerminalComplete == IF monVersion = "nae" THEN "ANALYSIS_COMPLETED" ELSE "COMPLETE"
MonNonTerminal ==
    (IF monVersion = "nae" THEN NaeVocabulary ELSE NdiVocabulary) \ {MonTerminalComplete}

\* C19: the monitoring returns success only when its final poll found the
\* job with the terminal-complete status (ANALYSIS_COMPLETED / COMPLETE);
\* after a poll that found the job with a recognised non-terminal status
\* the loop is still polling, whatever the number of polls made so far
\* (unless a later request failed in handle_request).
C19_SuccessOnlyOnTerminalComplete ==
    /\ monPc = "done" => (monLastFound /\ monLastStatus = MonTerminalComplete)
    /\ (monLastFound /\ monLastStatus \in MonNonTerminal /\ monPc # "fatal_transport")
          => monPc = "polling"
    /\ (monPc = "polling" /\ monPolls < MaxPolls) => ENABLED MonPoll

\* Success on the last poll the bound allows, after polls that all went on.
C19_Witness ==
    /\ monPc = "done"
    /\ monPolls = MaxPolls
    /\ monSeen
    /\ monLastStatus = MonTerminalComplete

(***************************************************************************)
(* nae_session.ndi_get_smart_events_by_fabric_name                         *)
(***************************************************************************)

\* __max_response_count
MaxResponseCount == 100

\* __test_prefix
NdiTestPrefix == "nae_"

\* Bound on the totalResultsCount a summary response declares.
MaxTotal == 250
\* Bound on the totalResultsCount a detail response declares.
MaxDetailTotal == 101
\* Bound on the number of summary requests of one retrieval.
MaxSummaryRequests == 4
\* Bound on the entries of one detail page that carry entityNameList.
MaxDetailsPerPage == 1

\* mnemonicTitle values of the service.
EventTitles == {"BD_FLOOD", "EPG_OVERLAP"}
\* Declared totals tried: the multiples of 50 and their successors.
SummaryTotals == {t \in 0..MaxTotal : t % 50 \in {0, 1}}
DetailTotals == {t \in 0..MaxDetailTotal : t % 100 \in {0, 1}}

\* The page count taken as the whole part of the quotient.
TotalPageCountFloor(total, count) == total \div count

\* -(-int(total) // count): ceiling division by floor division of the negation.
TotalPageCount(total, count) == -((-total) \div count)

\* The entries a service that pages faithfully puts on the page at offset.
HonestEntries(total, offset) ==
    IF total - offset >= MaxResponseCount THEN MaxResponseCount
    ELSE IF total - offset > 0 THEN total - offset
    ELSE 0

\* Entry counts of a summary page: what the totals promise, a single entry, none.
PageEntryCounts(total, offset) == {0, 1, HonestEntries(total, offset)}

\* All orders in which the members of S can be met first.
Orderings(S) ==
    {q \in [1..Cardinality(S) -> S] : \A i, j \in 1..Cardinality(S) : q[i] = q[j] => i = j}

\* The finding keys of the entries of one page with n entries: __test_prefix +
\* mnemonicTitle, in every order of first occurrence.
PageKeyOrders(n) ==
    UNION {Orderings({NdiTestPrefix \o t : t \in T}) :
             T \in {U \in SUBSET EventTitles : Cardinality(U) <= n /\ (n > 0 => U # {})}}

Range(q) == {q[i] : i \in 1..Len(q)}

\* "if __event_name not in __output.keys(): ..." for the keys of a page, in order:
\* the insertion order of __output afterwards.
AddKeys(order, keys) ==
    order \o SelectSeq(keys, LAMBDA k : k \notin Range(order))

\* __output after the same loop: a new key starts with an empty event_list.
AddEvents(output, keys) ==
    [k \in DOMAIN output \cup Range(keys) |-> IF k \in DOMAIN output THEN output[k] ELSE 0]

\* The removal left out: __output is returned as it is.
RemoveEmptyEventsSkipped(output, empty) == output

\* "for __item in __empty_events: __output.pop(__item)"
RemoveEmptyEvents(output, empty) ==
    [k \in DOMAIN output \ Range(empty) |-> output[k]]

NdiInit ==
    /\ ndiPc = "summary_first"
    /\ ndiOutput = << >>
    /\ ndiOrder = << >>
    /\ ndiTotalPageCount = Unbound
    /\ ndiCurrentPageCount = Unbound
    /\ ndiEmptyEvents = << >>
    /\ ndiEventIdx = 1
    /\ ndiSummaryOffsets = << >>
    /\ ndiDeclaredTotal = -1
    /\ ndiSeenTypes = {}
    /\ ndiDetailLog = << >>
    /\ ndiFaithful = TRUE
    /\ ndiDetailDeclared = << >>

\* The first summary request answers falsy: the error branch evaluates
\* logger.error(...) % assurance_group, a TypeError.
NdiSummaryFirstFails ==
    /\ ndiPc = "summary_first"
    /\ ndiPc' = "crash"
    /\ ndiSummaryOffsets' = Append(ndiSummaryOffsets, 0)
    /\ UNCHANGED <<ndiOutput, ndiOrder, ndiTotalPageCount, ndiCurrentPageCount,
                   ndiEmptyEvents, ndiEventIdx, ndiDeclaredTotal, ndiSeenTypes,
                   ndiDetailLog, ndiFaithful, ndiDetailDeclared, OthersOfNdi>>

\* The first summary response has no totalResultsCount: return (True, __output).
NdiSummaryFirstNoTotal ==
    /\ ndiPc = "summary_first"
    /\ ndiPc' = "returned_pair_true"
    /\ ndiSummaryOffsets' = Append(ndiSummaryOffsets, 0)
    /\ UNCHANGED <<ndiOutput, ndiOrder, ndiTotalPageCount, ndiCurrentPageCount,
                   ndiEmptyEvents, ndiEventIdx, ndiDeclaredTotal, ndiSeenTypes,
                   ndiDetailLog, ndiFaithful, ndiDetailDeclared, OthersOfNdi>>

\* The first summary response declares total and carries the entries keys.
NdiSummaryFirst ==
    \E total \in SummaryTotals :
    \E n \in PageEntryCounts(total, 0) :
    \E keys \in PageKeyOrders(n) :
        /\ ndiPc = "summary_first"
        /\ ndiSummaryOffsets' = Append(ndiSummaryOffsets, 0)
        /\ ndiDeclaredTotal' = total
        /\ ndiFaithful' = (n = HonestEntries(total, 0))
        /\ ndiTotalPageCount' = TotalPageCount(total, MaxResponseCount)
        /\ ndiOrder' = AddKeys(ndiOrder, keys)
        /\ ndiOutput' = AddEvents(ndiOutput, keys)
        /\ ndiSeenTypes' = ndiSeenTypes \cup Range(keys)
        /\ IF ndiTotalPageCount' > 1
           THEN ndiCurrentPageCount' = 1 /\ ndiPc' = "summary_pages"
           ELSE ndiCurrentPageCount' = ndiCurrentPageCount /\ ndiPc' = "details"
        /\ UNCHANGED <<ndiEmptyEvents, ndiEventIdx, ndiDetailLog, ndiDetailDeclared, OthersOfNdi>>

\* __current_page_count after the entries of one further summary page were
\* handled: the increment stands inside the loop over the entries.
PageCountAfterEntries(current, n) == current + n

\* One iteration of "while __current_page_count < __total_page_count" over
\* the summary pages, the request answered with n entries.
NdiSummaryPage ==
    /\ ndiPc = "summary_pages"
    /\ Len(ndiSummaryOffsets) < MaxSummaryRequests
    /\ \E n \in PageEntryCounts(ndiDeclaredTotal, ndiCurrentPageCount * MaxResponseCount) :
       \E keys \in PageKeyOrders(n) :
        /\ ndiSummaryOffsets' =
              Append(ndiSummaryOffsets, ndiCurrentPageCount * MaxResponseCount)
        /\ ndiOrder' = AddKeys(ndiOrder, keys)
        /\ ndiOutput' = AddEvents(ndiOutput, keys)
        /\ ndiSeenTypes' = ndiSeenTypes \cup Range(keys)
        /\ ndiCurrentPageCount' = PageCountAfterEntries(ndiCurrentPageCount, n)
        /\ ndiFaithful' = (ndiFaithful /\ n = HonestEntries(ndiDeclaredTotal,
                                              ndiCurrentPageCount * MaxResponseCount))
        /\ ndiPc' = IF ndiCurrentPageCount' < ndiTotalPageCount
                    THEN "summary_pages" ELSE "details"
        /\ UNCHANGED <<ndiTotalPageCount, ndiEmptyEvents, ndiEventIdx,
                       ndiDeclaredTotal, ndiDetailLog, ndiDetailDeclared, OthersOfNdi>>

\* A further summary request answers falsy: return (False, "").
NdiSummaryPageFails ==
    /\ ndiPc = "summary_pages"
    /\ Len(ndiSummaryOffsets) < MaxSummaryRequests
    /\ ndiSummaryOffsets' =
          Append(ndiSummaryOffsets, ndiCurrentPageCount * MaxResponseCount)
    /\ ndiPc' = "returned_pair_false"
    /\ UNCHANGED <<ndiOutput, ndiOrder, ndiTotalPageCount, ndiCurrentPageCount,
                   ndiEmptyEvents, ndiEventIdx, ndiDeclaredTotal, ndiSeenTypes,
                   ndiDetailLog, ndiFaithful, ndiDetailDeclared, OthersOfNdi>>

\* The event the loop over __output.keys() stands at.
NdiEvent == ndiOrder[ndiEventIdx]

\* The first detail request of an event answers falsy, or without
\* totalResultsCount: the event goes to __empty_events and the loop continues.
NdiDetailFirstEmpty ==
    /\ ndiPc = "details"
    /\ ndiEventIdx <= Len(ndiOrder)
    /\ ndiDetailLog' = Append(ndiDetailLog, <<NdiEvent, 0>>)
    /\ ndiEmptyEvents' = Append(ndiEmptyEvents, NdiEvent)
    /\ ndiEventIdx' = ndiEventIdx + 1
    /\ UNCHANGED <<ndiPc, ndiOutput, ndiOrder, ndiTotalPageCount, ndiCurrentPageCount,
                   ndiSummaryOffsets, ndiDeclaredTotal, ndiSeenTypes, ndiFaithful,
                   ndiDetailDeclared, OthersOfNdi>>

\* The first detail response of an event declares total and has k entries
\* with entityNameList.
NdiDetailFirst ==
    \E total \in DetailTotals, k \in 0..MaxDetailsPerPage :
        /\ ndiPc = "details"
        /\ ndiEventIdx <= Len(ndiOrder)
        /\ ndiDetailLog' = Append(ndiDetailLog, <<NdiEvent, 0>>)
        /\ ndiTotalPageCount' = TotalPageCount(total, MaxResponseCount)
        /\ ndiOutput' = [ndiOutput EXCEPT ![NdiEvent] = @ + k]
        /\ ndiEmptyEvents' = IF ndiOutput'[NdiEvent] = 0
                             THEN Append(ndiEmptyEvents, NdiEvent)
                             ELSE ndiEmptyEvents
        /\ IF ndiTotalPageCount' > 1
           THEN /\ ndiCurrentPageCount' = 1
                /\ ndiPc' = "detail_pages"
                /\ ndiEventIdx' = ndiEventIdx
           ELSE /\ ndiCurrentPageCount' = ndiCurrentPageCount
                /\ ndiPc' = "details"
                /\ ndiEventIdx' = ndiEventIdx + 1
        /\ ndiDetailDeclared' = (NdiEvent :> total) @@ ndiDetailDeclared
        /\ UNCHANGED <<ndiOrder, ndiSummaryOffsets, ndiDeclaredTotal, ndiSeenTypes,
                       ndiFaithful, OthersOfNdi>>

\* One iteration of "while __current_page_count < __total_page_count" over
\* the detail pages of the event, the response having k entries with
\* entityNameList.
NdiDetailPage ==
    \E k \in 0..MaxDetailsPerPage :
        /\ ndiPc = "detail_pages"
        /\ ndiDetailLog' =
              Append(ndiDetailLog, <<NdiEvent, ndiCurrentPageCount * MaxResponseCount>>)
        /\ ndiOutput' = [ndiOutput EXCEPT ![NdiEvent] = @ + k]
        /\ ndiCurrentPageCount' = ndiCurrentPageCount + 1
        /\ IF ndiCurrentPageCount' < ndiTotalPageCount
           THEN ndiPc' = "detail_pages" /\ ndiEventIdx' = ndiEventIdx
           ELSE ndiPc' = "details" /\ ndiEventIdx' = ndiEventIdx + 1
        /\ UNCHANGED <<ndiOrder, ndiTotalPageCount, ndiEmptyEvents, ndiSummaryOffsets,
                       ndiDeclaredTotal, ndiSeenTypes, ndiFaithful, ndiDetailDeclared, OthersOfNdi>>

\* A further detail request answers falsy: the error branch evaluates
\* logger.error(...) % (...), a TypeError.
NdiDetailPageFails ==
    /\ ndiPc = "detail_pages"
    /\ ndiDetailLog' =
          Append(ndiDetailLog, <<NdiEvent, ndiCurrentPageCount * MaxResponseCount>>)
    /\ ndiPc' = "crash"
    /\ UNCHANGED <<ndiOutput, ndiOrder, ndiTotalPageCount, ndiCurrentPageCount,
                   ndiEmptyEvents, ndiEventIdx, ndiSummaryOffsets, ndiDeclaredTotal,
                   ndiSeenTypes, ndiFaithful, ndiDetailDeclared, OthersOfNdi>>

\* After the loop over the events: remove the empty events and
\* return (True, __output, __empty_events).
NdiReturn ==
    /\ ndiPc = "details"
    /\ ndiEventIdx > Len(ndiOrder)
    /\ ndiOutput' = RemoveEmptyEvents(ndiOutput, ndiEmptyEvents)
    /\ ndiOrder' = SelectSeq(ndiOrder, LAMBDA k : k \in DOMAIN ndiOutput')
    /\ ndiPc' = "returned_triple"
    /\ UNCHANGED <<ndiTotalPageCount, ndiCurrentPageCount, ndiEmptyEvents, ndiEventIdx,
                   ndiSummaryOffsets, ndiDeclaredTotal, ndiSeenTypes, ndiDetailLog,
                   ndiFaithful, ndiDetailDeclared, OthersOfNdi>>

\* handle_request ends the run on a timeout, a connection error or a status
\* code it does not accept, at whichever request is next.
NdiTransportFailure ==
    /\ ndiPc \in {"summary_first", "summary_pages", "detail_pages"}
       \/ (ndiPc = "details" /\ ndiEventIdx <= Len(ndiOrder))
    /\ ndiPc' = "fatal_transport"
    /\ UNCHANGED <<ndiOutput, ndiOrder, ndiTotalPageCount, ndiCurrentPageCount,
                   ndiEmptyEvents, ndiEventIdx, ndiSummaryOffsets, ndiDeclaredTotal,
                   ndiSeenTypes, ndiDetailLog, ndiFaithful, ndiDetailDeclared, OthersOfNdi>>

InitNdi == NdiInit /\ IdleExcept("ndi")
NextNdi ==
    \/ NdiSummaryFirstFails
    \/ NdiSummaryFirstNoTotal
    \/ NdiSummaryFirst
    \/ NdiSummaryPage
    \/ NdiSummaryPageFails
    \/ NdiDetailFirstEmpty
    \/ NdiDetailFirst
    \/ NdiDetailPage
    \/ NdiDetailPageFails
    \/ NdiReturn
    \/ NdiTransportFailure
SpecNdi == InitNdi /\ [][NextNdi]_vars

\* The summary pages have all been fetched: the function is past its paging loop.
NdiSummaryDone == ndiPc \in {"details", "detail_pages", "returned_triple"}

\* Offsets 0, 100, 200, ... of pages requests, one for each of pages pages.
PageOffsets(pages) == [i \in 1..pages |-> (i - 1) * MaxResponseCount]

\* C2: for a declared totalResultsCount T >= 1 exactly ceil(T/100) summary
\* pages are requested, at offsets 0, 100, 200, ... each once and in
\* increasing order (stated for a service whose pages carry the entries the
\* total promises).
C2_SummaryPagesAllRequested ==
    (NdiSummaryDone /\ ndiFaithful /\ ndiDeclaredTotal >= 1)
        => ndiSummaryOffsets = PageOffsets(TotalPageCount(ndiDeclaredTotal, MaxResponseCount))

\* C10: on the success path the keys of the returned finding set and the
\* returned list of events without details are disjoint, together they are
\* exactly the event types seen in the summary pages, and no event is in
\* the list twice.
C10_FindingsAndEmptyEventsPartition ==
    ndiPc = "returned_triple" =>
        /\ DOMAIN ndiOutput \cap Range(ndiEmptyEvents) = {}
        /\ DOMAIN ndiOutput \cup Range(ndiEmptyEvents) = ndiSeenTypes
        /\ \A i, j \in 1..Len(ndiEmptyEvents) : ndiEmptyEvents[i] = ndiEmptyEvents[j] => i = j

\* A retrieval returned one finding with details and one event without.
C10_Witness ==
    /\ ndiPc = "returned_triple"
    /\ Cardinality(DOMAIN ndiOutput) = 1
    /\ Len(ndiEmptyEvents) = 1
    /\ \E k \in DOMAIN ndiOutput : ndiOutput[k] > 0

\* C11: at the return an event type stays in the finding set if and only if
\* its detail pages delivered at least one entry with entityNameList; every
\* returned finding has a non-empty event_list and no event with detail data
\* on some page is moved to the events without details.
C11_FindingKeptIffDetailsDelivered ==
    [][(ndiPc = "details" /\ ndiPc' = "returned_triple") =>
          \A k \in DOMAIN ndiOutput :
             /\ (k \in DOMAIN ndiOutput') <=> (ndiOutput[k] > 0)
             /\ (k \in Range(ndiEmptyEvents')) <=> (ndiOutput[k] = 0)]_vars

\* The offsets of the detail requests made for the finding key, in order.
DetailOffsetsOf(key) ==
    LET mine == SelectSeq(ndiDetailLog, LAMBDA entry : entry[1] = key)
    IN  [i \in 1..Len(mine) |-> mine[i][2]]

\* The least number of pages of MaxResponseCount entries that hold total entries.
LeastPageCount(total) ==
    CHOOSE n \in 0..(total + 1) :
        /\ n * MaxResponseCount >= total
        /\ \A k \in 0..(total + 1) : k * MaxResponseCount >= total => n <= k

\* The loop over the detail pages of the finding key has come to its end.
DetailPagingDone(key) ==
    \/ ndiPc = "returned_triple"
    \/ /\ ndiPc \in {"details", "detail_pages"}
       /\ \E i \in 1..(ndiEventIdx - 1) : i <= Len(ndiOrder) /\ ndiOrder[i] = key

\* The detail requests of every event with a declared total are the first
\* requests of pages(total) pages at offsets 0, 100, ..., all of them once
\* the paging of the event is done; while an event is paged the page count
\* in use is the one of its own declared total.
DetailPagesAre(pages(_)) ==
    /\ \A key \in DOMAIN ndiDetailDeclared :
          LET wanted == PageOffsets(pages(ndiDetailDeclared[key]))
              made == DetailOffsetsOf(key)
          IN  /\ Len(made) <= Len(wanted)
              /\ made = SubSeq(wanted, 1, Len(made))
              /\ DetailPagingDone(key) => made = wanted
    /\ ndiPc = "detail_pages" =>
          /\ NdiEvent \in DOMAIN ndiDetailDeclared
          /\ ndiTotalPageCount = LeastPageCount(ndiDetailDeclared[NdiEvent])

\* C21 as stated: for each event type whose first detail response declares
\* totalResultsCount T, exactly ceil(T/100) detail pages are requested, at
\* offsets 0, 100, ... each once and in increasing order, and the page
\* count used for an event is the one computed for that event.
C21_DetailPagesCeilOfTotal ==
    DetailPagesAre(LAMBDA total : LeastPageCount(total))

\* C21 amended: the page at offset 0 is the request that brings T, so it is
\* made also when T = 0: for each event type whose first detail response
\* declares totalResultsCount T, exactly max(1, ceil(T/100)) detail pages
\* are requested, at offsets 0, 100, ... each once and in increasing order,
\* and the page count used for an event is the one computed for that event.
C21_DetailPagesCeilOfTotalAtLeastOne ==
    DetailPagesAre(LAMBDA total :
        IF LeastPageCount(total) < 1 THEN 1 ELSE LeastPageCount(total))

\* Two events were paged one after the other with different page counts,
\* the first with two pages and the second with one.
C21_Witness ==
    /\ ndiPc = "returned_triple"
    /\ Len(ndiOrder) + Len(ndiEmptyEvents) = 2
    /\ \E a, b \in DOMAIN ndiDetailDeclared :
          /\ ndiDetailDeclared[a] = MaxDetailTotal
          /\ ndiDetailDeclared[b] = 1
          /\ DetailOffsetsOf(a) = <<0, MaxResponseCount>>
          /\ DetailOffsetsOf(b) = <<0>>
          /\ \E i \in 1..Len(ndiDetailLog) :
                 /\ ndiDetailLog[i][1] = b
                 /\ \A j \in 1..i : ndiDetailLog[j][1] = a \/ j = i

(***************************************************************************)
(* vetr_check_dataformat and vetr_convert_dataformat                       *)
(***************************************************************************)

\* __vetr_2_0_0_keys
Vetr200Keys ==
    <<"meta", "firmware", "admin", "fabricStats", "eol", "epLoopProtection",
      "rogueEPControl", "ipAging", "remoteEPlearning", "enforceSubnetCheck",
      "portTracking", "coopStrict", "bfdFabricInt", "domainValidation", "mcp",
      "dom", "multipod", "isisMetric", "tenantStats", "bdStats",
      "ingressPolicyEnforcement", "vzAny", "l3outRedundancy", "scale", "health",
      "ssd">>

\* __vetr_2_0_8_keys
Vetr208Keys ==
    <<"meta", "stats", "apic", "system", "faults", "tenant", "health", "fabric",
      "access", "admin", "apps", "scale", "eol">>

\* The entries of __conversion whose value is a string.
ConversionFlat ==
    [meta |-> "meta",
     firmware |-> "admin_firmwareVersion",
     fabricStats |-> "stats_fabric",
     epLoopProtection |-> "system_epLoopProtection",
     rogueEPControl |-> "system_rogueEPControl",
     ipAging |-> "system_ipAging",
     remoteEPlearning |-> "system_remoteEPlearning",
     enforceSubnetCheck |-> "system_enforceSubnetCheck",
     portTracking |-> "system_portTracking",
     coopStrict |-> "fabric_coopStrict",
     bfdFabricInt |-> "fabric_bfdFabricInt",
     domainValidation |-> "system_domainValidation",
     dom |-> "fabric_dom",
     multipod |-> "stats_multipod",
     isisMetric |-> "fabric_isisMetric",
     tenantStats |-> "tenant_stats",
     bdStats |-> "tenant_bdStats",
     ingressPolicyEnforcement |-> "tenant_ingressPolicyEnforcement",
     vzAny |-> "tenant_vzAny",
     l3outRedundancy |-> "tenant_l3outRedundancy",
     health |-> "health",
     ssd |-> "faults_ssd"]

\* The entries of __conversion whose value is a dict of child keys.
ConversionNested ==
    [admin |-> [encryptedBackups |-> "system_encryptedBackups"],
     eol |-> [apic |-> "eol_apic"],
     mcp |-> [interface |-> "access_mcpInterface", global |-> "fabric_mcpGlobal"],
     scale |-> [fabric |-> "scale_fabric", guide |-> "scale_guide",
                switch |-> "scale_switch"]]

\* Position of the first "_" of s, 0 when it has none.
FirstSeparator(s) ==
    IF \E i \in 1..Len(s) : SubSeq(s, i, i) = "_"
    THEN CHOOSE i \in 1..Len(s) :
             /\ SubSeq(s, i, i) = "_"
             /\ \A j \in 1..(i - 1) : SubSeq(s, j, j) # "_"
    ELSE 0

\* s.split("_")
RECURSIVE SplitUnderscore(_)
SplitUnderscore(s) ==
    IF FirstSeparator(s) = 0 THEN <<s>>
    ELSE <<SubSeq(s, 1, FirstSeparator(s) - 1)>>
             \o SplitUnderscore(SubSeq(s, FirstSeparator(s) + 1, Len(s)))

\* The check that compares the number of keys only.
VetrCheckDataformatByLength(keys) ==
    IF Cardinality(keys) = Len(Vetr208Keys) THEN "dataformat_2_0_8"
    ELSE IF Cardinality(keys) = Len(Vetr200Keys) THEN "dataformat_2_0_0"
    ELSE "exit"

\* The two length comparisons and the loops over the keys of
\* vetr_check_dataformat, for a payload with the top-level key set keys.
VetrCheckDataformat(keys) ==
    IF Cardinality(keys) = Len(Vetr208Keys)
    THEN (IF \A k \in keys : k \in Range(Vetr208Keys)
          THEN "dataformat_2_0_8" ELSE "exit")
    ELSE IF Cardinality(keys) = Len(Vetr200Keys)
    THEN (IF \A k \in keys : k \in Range(Vetr200Keys)
          THEN "dataformat_2_0_0" ELSE "exit")
    ELSE "exit"

\* A value the payload holds at a top-level key, and at a child key.
ValueAt(key) == "value of " \o key
ChildValueAt(key, child) == "value of " \o key \o "." \o child

\* The value of the parent key written in place of the child's.
WrittenChildValueOfParent(key, child) == ValueAt(key)

\* vetr_data[key][child_key], the value the loop over the children writes.
WrittenChildValue(key, child) == ChildValueAt(key, child)

\* A child key __conversion does not know.
UnmappedChild == "unmappedChild"

\* The child keys a payload may hold under a nested legacy key, in payload order.
ChildOrder ==
    [admin |-> <<"encryptedBackups", UnmappedChild>>,
     eol |-> <<"apic">>,
     mcp |-> <<"interface", "global">>,
     scale |-> <<"fabric", "guide", "switch">>]

\* All subsequences of q.
RECURSIVE SubSequences(_)
SubSequences(q) ==
    IF q = << >> THEN {<< >>}
    ELSE LET rest == SubSequences(Tail(q))
         IN  rest \cup {<<Head(q)>> \o r : r \in rest}

\* What a payload holds under a top-level key that is no dict.
ScalarEntry == [isDict |-> FALSE, children |-> << >>]

\* What a payload may hold under a nested legacy key: a dict with some of the
\* child keys, and under admin a scalar as well.
NestedEntries(key) ==
    {[isDict |-> TRUE, children |-> c] : c \in SubSequences(ChildOrder[key])}
        \cup (IF key = "admin" THEN {ScalarEntry} ELSE {})

\* The payload with the top-level key set keys that holds nested[k] under
\* the nested legacy key k.
Payload(keys, nested) ==
    [k \in keys |-> IF k \in DOMAIN nested THEN nested[k] ELSE ScalarEntry]

\* Top-level key sets a payload may have: the legacy set, the canonical set,
\* each with one key replaced by a foreign one, and each with one key missing.
PayloadKeySets ==
    {Range(Vetr200Keys), Range(Vetr208Keys),
     (Range(Vetr200Keys) \ {"ssd"}) \cup {"foreign"},
     (Range(Vetr208Keys) \ {"eol"}) \cup {"foreign"},
     Range(Vetr200Keys) \ {"ssd"},
     Range(Vetr208Keys) \ {"eol"},
     {}}

\* The order of the keys of a payload: the listed order, or its reverse.
KeyOrders(keys) ==
    LET all == Vetr200Keys \o SelectSeq(Vetr208Keys, LAMBDA k : k \notin Range(Vetr200Keys))
                   \o <<"foreign">>
        fwd == SelectSeq(all, LAMBDA k : k \in keys)
    IN  {fwd, [i \in 1..Len(fwd) |-> fwd[Len(fwd) + 1 - i]]}

\* What the write of a value to the target named by mapping_elements does:
\* "ok", or the exit taken.
WriteOutcome(output, elems) ==
    IF Len(elems) = 1
    THEN (IF elems[1] \notin DOMAIN output THEN "ok" ELSE "exit_duplicate")
    ELSE IF Len(elems) = 2
    THEN (IF elems[1] \notin DOMAIN output THEN "ok"
          ELSE IF output[elems[1]].leaf THEN "crash"
          ELSE IF elems[2] \notin DOMAIN output[elems[1]].fields THEN "ok"
          ELSE "exit_duplicate")
    ELSE "exit_nesting"

\* An output section that is a value, and one that is a dict of fields.
LeafSection(value) == [leaf |-> TRUE, value |-> value, fields |-> << >>]
DictSection(fields) == [leaf |-> FALSE, value |-> "", fields |-> fields]

\* The write that sets the section to a new dict every time.
WriteOutputReplacingSection(output, elems, value) ==
    IF Len(elems) = 1
    THEN (elems[1] :> LeafSection(value)) @@ output
    ELSE (elems[1] :> DictSection(elems[2] :> value)) @@ output

\* __conversion_output after a write whose outcome is "ok".
WriteOutput(output, elems, value) ==
    IF Len(elems) = 1
    THEN (elems[1] :> LeafSection(value)) @@ output
    ELSE LET old == IF elems[1] \in DOMAIN output THEN output[elems[1]].fields ELSE << >>
         IN  (elems[1] :> DictSection((elems[2] :> value) @@ old)) @@ output

CnvInit ==
    /\ cnvPc = "check"
    /\ \E keys \in PayloadKeySets :
       \E a \in NestedEntries("admin"), e \in NestedEntries("eol"),
          m \in NestedEntries("mcp"), s \in NestedEntries("scale") :
          /\ cnvData = Payload(keys, [admin |-> a, eol |-> e, mcp |-> m, scale |-> s])
          /\ cnvKeys \in KeyOrders(keys)
    /\ cnvIdx = 1
    /\ cnvChildIdx = 1
    /\ cnvOutput = << >>
    /\ cnvWrites = << >>

\* vetr_check_dataformat and the branch of generate_audit_report on its result.
CnvCheck ==
    /\ cnvPc = "check"
    /\ cnvPc' = CASE VetrCheckDataformat(DOMAIN cnvData) = "dataformat_2_0_8" -> "passthrough"
                  [] VetrCheckDataformat(DOMAIN cnvData) = "dataformat_2_0_0" -> "convert"
                  [] OTHER -> "exit_format"
    /\ UNCHANGED <<cnvData, cnvKeys, cnvIdx, cnvChildIdx, cnvOutput, cnvWrites, OthersOfCnv>>

\* The key the loop over vetr_data.keys() stands at.
CnvKey == cnvKeys[cnvIdx]

\* One iteration of "for key in vetr_data.keys()" for a key whose mapping is
\* a string, or that __conversion does not know.
CnvFlatKey ==
    /\ cnvPc = "convert"
    /\ cnvIdx <= Len(cnvKeys)
    /\ CnvKey \notin DOMAIN ConversionNested
    /\ IF CnvKey \notin DOMAIN ConversionFlat
       THEN cnvPc' = "exit_unmapped" /\ UNCHANGED <<cnvIdx, cnvOutput, cnvWrites>>
       ELSE LET elems == SplitUnderscore(ConversionFlat[CnvKey])
                outcome == WriteOutcome(cnvOutput, elems)
            IN  IF outcome = "ok"
                THEN /\ cnvOutput' = WriteOutput(cnvOutput, elems, ValueAt(CnvKey))
                     /\ cnvWrites' = Append(cnvWrites, elems)
                     /\ cnvIdx' = cnvIdx + 1
                     /\ cnvPc' = "convert"
                ELSE cnvPc' = outcome /\ UNCHANGED <<cnvIdx, cnvOutput, cnvWrites>>
    /\ UNCHANGED <<cnvData, cnvKeys, cnvChildIdx, OthersOfCnv>>

\* The same iteration for a key whose mapping is a dict: the loop over the
\* children starts; a value without keys() raises AttributeError.
CnvNestedKey ==
    /\ cnvPc = "convert"
    /\ cnvIdx <= Len(cnvKeys)
    /\ CnvKey \in DOMAIN ConversionNested
    /\ IF ~cnvData[CnvKey].isDict
       THEN cnvPc' = "crash" /\ UNCHANGED <<cnvIdx, cnvChildIdx>>
       ELSE IF cnvData[CnvKey].children = << >>
       THEN cnvPc' = "convert" /\ cnvIdx' = cnvIdx + 1 /\ UNCHANGED cnvChildIdx
       ELSE cnvPc' = "children" /\ cnvChildIdx' = 1 /\ UNCHANGED cnvIdx
    /\ UNCHANGED <<cnvData, cnvKeys, cnvOutput, cnvWrites, OthersOfCnv>>

\* One iteration of "for child_key in vetr_data[key].keys()".
CnvChildKey ==
    /\ cnvPc = "children"
    /\ LET children == cnvData[CnvKey].children
           child == children[cnvChildIdx]
       IN  IF child \notin DOMAIN ConversionNested[CnvKey]
           THEN cnvPc' = "exit_unmapped" /\ UNCHANGED <<cnvIdx, cnvChildIdx, cnvOutput, cnvWrites>>
           ELSE LET elems == SplitUnderscore(ConversionNested[CnvKey][child])
                    outcome == WriteOutcome(cnvOutput, elems)
                IN  IF outcome = "ok"
                    THEN /\ cnvOutput' = WriteOutput(cnvOutput, elems,
                                                     WrittenChildValue(CnvKey, child))
                         /\ cnvWrites' = Append(cnvWrites, elems)
                         /\ IF cnvChildIdx < Len(children)
                            THEN /\ cnvChildIdx' = cnvChildIdx + 1
                                 /\ cnvPc' = "children"
                                 /\ UNCHANGED cnvIdx
                            ELSE /\ cnvIdx' = cnvIdx + 1
                                 /\ cnvPc' = "convert"
                                 /\ UNCHANGED cnvChildIdx
                    ELSE cnvPc' = outcome
                         /\ UNCHANGED <<cnvIdx, cnvChildIdx, cnvOutput, cnvWrites>>
    /\ UNCHANGED <<cnvData, cnvKeys, OthersOfCnv>>

\* return __conversion_output
CnvReturn ==
    /\ cnvPc = "convert"
    /\ cnvIdx > Len(cnvKeys)
    /\ cnvPc' = "returned"
    /\ UNCHANGED <<cnvData, cnvKeys, cnvIdx, cnvChildIdx, cnvOutput, cnvWrites, OthersOfCnv>>

InitConvert == CnvInit /\ IdleExcept("cnv")
NextConvert == CnvCheck \/ CnvFlatKey \/ CnvNestedKey \/ CnvChildKey \/ CnvReturn
SpecConvert == InitConvert /\ [][NextConvert]_vars

\* C4: vetr_convert_dataformat applied to a payload with the legacy key set
\* returns an output whose top-level key set is exactly the 13-key canonical
\* set that vetr_check_dataformat accepts.
C4_ConvertedKeySetCanonical ==
    cnvPc = "returned" =>
        /\ DOMAIN cnvOutput = Range(Vetr208Keys)
        /\ VetrCheckDataformat(DOMAIN cnvOutput) = "dataformat_2_0_8"

\* The output holds value at the section (one element) or the section and
\* field (two elements) that elems names.
HoldsAt(output, elems, value) ==
    /\ elems[1] \in DOMAIN output
    /\ IF Len(elems) = 1
       THEN output[elems[1]].leaf /\ output[elems[1]].value = value
       ELSE /\ ~output[elems[1]].leaf
            /\ elems[2] \in DOMAIN output[elems[1]].fields
            /\ output[elems[1]].fields[elems[2]] = value

\* The section, or section and field, that elems names is populated.
Populated(output, elems) ==
    /\ elems[1] \in DOMAIN output
    /\ \/ Len(elems) = 1
       \/ output[elems[1]].leaf
       \/ elems[2] \in DOMAIN output[elems[1]].fields

\* C12: vetr_check_dataformat answers the canonical format exactly for the
\* 13-key canonical key set, the legacy format exactly for the 26-key legacy
\* key set, and ends the run for every other key set, also one with the
\* right number of keys and a different key.
C12_FormatDecidedByKeyIdentity ==
    cnvPc # "check" =>
        /\ (cnvPc = "passthrough") <=> (DOMAIN cnvData = Range(Vetr208Keys))
        /\ (cnvPc \notin {"passthrough", "exit_format"}) <=> (DOMAIN cnvData = Range(Vetr200Keys))
        /\ (cnvPc = "exit_format")
              <=> (DOMAIN cnvData \notin {Range(Vetr208Keys), Range(Vetr200Keys)})

\* A payload with 13 top-level keys, one of them foreign, was rejected.
C12_Witness ==
    /\ cnvPc = "exit_format"
    /\ Cardinality(DOMAIN cnvData) = Len(Vetr208Keys)
    /\ "foreign" \in DOMAIN cnvData

\* C13: the returned output holds, for every legacy top-level key with a
\* qualifier and for every child key of the nested legacy keys admin, eol,
\* mcp and scale, the unchanged source value at output[section][field], or
\* at output[section] when the qualifier has a single element.
C13_NoValueLost ==
    cnvPc = "returned" =>
        \A k \in DOMAIN cnvData :
           IF k \in DOMAIN ConversionNested
           THEN \A i \in 1..Len(cnvData[k].children) :
                   HoldsAt(cnvOutput, SplitUnderscore(ConversionNested[k][cnvData[k].children[i]]),
                           ChildValueAt(k, cnvData[k].children[i]))
           ELSE HoldsAt(cnvOutput, SplitUnderscore(ConversionFlat[k]), ValueAt(k))

\* A legacy payload with both children of mcp and all three of scale was converted.
C13_Witness ==
    /\ cnvPc = "returned"
    /\ Len(cnvData["mcp"].children) = 2
    /\ Len(cnvData["scale"].children) = 3
    /\ Len(cnvWrites) >= Len(Vetr200Keys)

\* C14: no step of the conversion assigns a section or a section and field
\* that is already populated, and every value once written stays where it
\* is, unchanged.
C14_NoTargetAssignedTwice ==
    [][/\ \A sec \in DOMAIN cnvOutput :
             /\ sec \in DOMAIN cnvOutput'
             /\ cnvOutput'[sec].leaf = cnvOutput[sec].leaf
             /\ cnvOutput'[sec].value = cnvOutput[sec].value
             /\ \A f \in DOMAIN cnvOutput[sec].fields :
                   /\ f \in DOMAIN cnvOutput'[sec].fields
                   /\ cnvOutput'[sec].fields[f] = cnvOutput[sec].fields[f]
       /\ cnvWrites' # cnvWrites =>
             ~Populated(cnvOutput, cnvWrites'[Len(cnvWrites')])]_vars

\* A conversion wrote a second field into a section that was already there.
C14_Witness ==
    /\ cnvPc \in {"convert", "children", "returned"}
    /\ \E sec \in DOMAIN cnvOutput :
          ~cnvOutput[sec].leaf /\ Cardinality(DOMAIN cnvOutput[sec].fields) >= 2

(***************************************************************************)
(* get_nested_dict_entries_containing_key and vetr_analyse_output          *)
(***************************************************************************)

\* The marker key vetr_analyse_output searches for.
MarkerKey == "actionRecommended"

\* __test_prefix of vetr_analyse_output
VetrTestPrefix == "vetR_"

\* Values of the nested structure: a scalar, a dict (keys in insertion order
\* with their values), a list.
Scalar(v) == [kind |-> "scalar", keys |-> << >>, kids |-> << >>, value |-> v]
DictOf(keys, kids) == [kind |-> "dict", keys |-> keys, kids |-> kids, value |-> ""]
ListOf(kids) == [kind |-> "list", keys |-> << >>, kids |-> kids, value |-> ""]

\* var[key] of a dict that has the key.
Lookup(var, key) == var.kids[CHOOSE i \in 1..Len(var.keys) : var.keys[i] = key]

\* Records carrying the marker.
RecTrue == DictOf(<<MarkerKey>>, <<Scalar("true")>>)
RecFalse == DictOf(<<MarkerKey>>, <<Scalar("false")>>)
RecError == DictOf(<<MarkerKey, "error">>, <<Scalar("true"), Scalar("analysis failed")>>)
RecOuter == DictOf(<<MarkerKey, "inner">>, <<Scalar("true"), DictOf(<<"deep">>, <<RecTrue>>)>>)
RecBfd(marker, enabled) ==
    DictOf(<<MarkerKey, "recommended">>,
           <<Scalar(marker), DictOf(<<"enabled">>, <<Scalar(enabled)>>)>>)

\* What the payloads tried hold under each of their top-level keys.
ValuesUnder ==
    [a_b |-> {RecTrue, RecFalse, RecError},
     a |-> {DictOf(<<"b">>, <<RecTrue>>),
            DictOf(<<"b", "c">>, <<RecFalse, RecTrue>>),
            ListOf(<<RecTrue>>),
            ListOf(<<Scalar("x"), DictOf(<<"b">>, <<RecFalse>>)>>),
            ListOf(<<RecError>>),
            Scalar("x"),
            RecOuter},
     vetR |-> {DictOf(<<"a_b">>, <<RecTrue>>)},
     fabric |-> {DictOf(<<"bfdFabricInt">>, <<RecBfd("true", "true")>>),
                 DictOf(<<"bfdFabricInt">>, <<RecBfd("true", "false")>>),
                 DictOf(<<"bfdFabricInt">>, <<RecBfd("false", "true")>>),
                 DictOf(<<"bfdFabricInt", "coopStrict">>, <<RecTrue, RecTrue>>),
                 DictOf(<<"bfdFabricInt", "coopStrict">>, <<RecBfd("true", "true"), RecTrue>>)}]

\* The top-level keys of the payloads tried, in payload order.
TopKeyOrder == <<"a_b", "a", "vetR", "fabric">>

\* A chain of dicts of the given depth above a record: the marker at depth d.
RECURSIVE Chain(_, _)
Chain(d, rec) == IF d = 0 THEN rec ELSE DictOf(<<"n">>, <<Chain(d - 1, rec)>>)

\* The dicts with the top-level keys keys (in order), each holding one of
\* the values tried under it.
RECURSIVE DictsOver(_)
DictsOver(keys) ==
    IF keys = << >> THEN {DictOf(<< >>, << >>)}
    ELSE {DictOf(<<Head(keys)>> \o r.keys, <<v>> \o r.kids) :
             v \in ValuesUnder[Head(keys)], r \in DictsOver(Tail(keys))}

\* The structures a traversal is given.
ExtInputs ==
    UNION {DictsOver(keys) : keys \in SubSequences(TopKeyOrder)}
        \cup {RecTrue, Chain(1, RecTrue), Chain(5, RecTrue), Chain(5, Scalar("x")),
              ListOf(<<RecTrue, RecFalse>>), Scalar("x")}

\* Components of a path: a mapping key, the index of a list element, a list
\* element itself.
KeyComp(k) == [tag |-> "key", key |-> k, idx |-> 0, elem |-> Scalar("")]
IndexComp(i) == [tag |-> "index", key |-> "", idx |-> i, elem |-> Scalar("")]
ElemComp(d) == [tag |-> "elem", key |-> "", idx |-> 0, elem |-> d]

\* "__path.append(d)": the component appended for element d at index i of a list.
ListComp(d, i) == ElemComp(d)

\* The pop left out.
PopPathNever(path) == path

\* "if len(__path) > 0: __path.pop()"
PopPath(path) == IF Len(path) > 0 THEN SubSeq(path, 1, Len(path) - 1) ELSE path

\* The items of a dict are walked after its yield as well.
DescendsAlways(var) == TRUE

\* "if __key in __var.keys(): yield ... else: for k, v in __var.items()": the
\* items of a dict are walked only when it lacks the key.
Descends(var) == ~(var.kind = "dict" /\ MarkerKey \in Range(var.keys))

\* A frame of the generator: the value it walks, how many of its items it
\* has gone through, and (history) the keys and indices leading to it.
Frame(var, true) == [var |-> var, pos |-> 0, true |-> true]

\* The top frame stands at its "yield (__path, __var)".
AtYield(stack) ==
    /\ stack # << >>
    /\ stack[Len(stack)].var.kind = "dict"
    /\ MarkerKey \in Range(stack[Len(stack)].var.keys)
    /\ stack[Len(stack)].pos = 0

\* "_".join(__path) of a path of strings.
RECURSIVE JoinUnderscore(_)
JoinUnderscore(path) ==
    IF path = << >> THEN ""
    ELSE IF Len(path) = 1 THEN path[1].key
    ELSE path[1].key \o "_" \o JoinUnderscore(Tail(path))

\* "_".join raises TypeError when an item of the path is no string.
Joinable(path) == \A i \in 1..Len(path) : path[i].tag = "key"

\* The truth value of a scalar, and "is True".
Truthy(node) == ~(node.kind = "scalar" /\ node.value \in {"false", ""})
IsTrue(node) == node.kind = "scalar" /\ node.value = "true"

\* The test of the recommended state left out.
IsRecommendedEnabledNever(entry) == FALSE

\* __entry["recommended"]["enabled"] is True
IsRecommendedEnabled(entry) == IsTrue(Lookup(Lookup(entry, "recommended"), "enabled"))

\* __entry["recommended"]["enabled"] can be evaluated.
HasRecommendedEnabled(entry) ==
    /\ "recommended" \in Range(entry.keys)
    /\ Lookup(entry, "recommended").kind = "dict"
    /\ "enabled" \in Range(Lookup(entry, "recommended").keys)

\* "if __entry_key in __output"
DuplicateKeyFound(output, entryKey) == entryKey \in DOMAIN output

\* What the body of the loop of vetr_analyse_output does with one yielded
\* pair: "skip", "store", or how the run ends.
AnalyseStep(output, path, entry) ==
    IF ~Truthy(Lookup(entry, MarkerKey)) THEN "skip"
    ELSE IF ~Joinable(path) THEN "crash"
    ELSE IF "error" \in Range(entry.keys) THEN "skip"
    ELSE IF DuplicateKeyFound(output, JoinUnderscore(path)) THEN "exit_duplicate"
    ELSE IF JoinUnderscore(path) = "fabric_bfdFabricInt"
    THEN (IF ~HasRecommendedEnabled(entry) THEN "crash"
          ELSE IF IsRecommendedEnabled(entry) THEN "skip"
          ELSE "store")
    ELSE "store"

ExtInit ==
    /\ extData \in ExtInputs
    /\ extStack = <<Frame(extData, << >>)>>
    /\ extPath = << >>
    /\ extYields = << >>
    /\ vaPc = "iterating"
    /\ vaOutput = << >>
    /\ vaWrites = << >>

\* The frames and the path after the generator ran on from its top frame up
\* to its next step: it takes the next item of a dict or a list, or ends
\* the frame.
Advanced(stack, path) ==
    LET n == Len(stack)
        top == stack[n]
        var == top.var
        items == Len(var.kids)
    IN  IF var.kind \in {"dict", "list"} /\ Descends(var) /\ top.pos < items
        THEN LET i == top.pos + 1
                 v == var.kids[i]
                 moved == [stack EXCEPT ![n].pos = i]
             IN  IF var.kind = "dict"
                 THEN IF v.kind \in {"dict", "list"}
                      THEN [path |-> Append(path, KeyComp(var.keys[i])),
                            stack |-> Append(moved,
                                         Frame(v, Append(top.true, KeyComp(var.keys[i]))))]
                      ELSE [path |-> path, stack |-> moved]
                 ELSE [path |-> Append(path, ListComp(v, i - 1)),
                       stack |-> Append(moved, Frame(v, Append(top.true, IndexComp(i - 1))))]
        ELSE [path |-> PopPath(path), stack |-> SubSeq(stack, 1, n - 1)]

\* The generator runs on from its top frame up to its next step.
ExtAdvance ==
    /\ vaPc = "iterating"
    /\ extStack # << >>
    /\ ~AtYield(extStack)
    /\ extPath' = Advanced(extStack, extPath).path
    /\ extStack' = Advanced(extStack, extPath).stack
    /\ UNCHANGED <<extData, extYields, vaPc, vaOutput, vaWrites, OthersOfExt>>

\* The generator yields (__path, __var) and the body of the loop of
\* vetr_analyse_output handles the pair.
ExtYield ==
    /\ vaPc = "iterating"
    /\ AtYield(extStack)
    /\ LET n == Len(extStack)
           top == extStack[n]
           step == AnalyseStep(vaOutput, extPath, top.var)
           stored == VetrTestPrefix \o JoinUnderscore(extPath)
       IN  /\ extYields' = Append(extYields,
                               [path |-> extPath, true |-> top.true, record |-> top.var])
           /\ extStack' = [extStack EXCEPT ![n].pos = 1]
           /\ IF step = "store"
              THEN /\ vaOutput' = (stored :> top.var) @@ vaOutput
                   /\ vaWrites' = Append(vaWrites, stored)
                   /\ vaPc' = "iterating"
              ELSE /\ UNCHANGED <<vaOutput, vaWrites>>
                   /\ vaPc' = IF step = "skip" THEN "iterating" ELSE step
    /\ UNCHANGED <<extData, extPath, OthersOfExt>>

\* The generator is exhausted: the loop ends and vetr_analyse_output returns.
ExtExhausted ==
    /\ vaPc = "iterating"
    /\ extStack = << >>
    /\ vaPc' = "returned"
    /\ UNCHANGED <<extData, extStack, extPath, extYields, vaOutput, vaWrites, OthersOfExt>>

InitExtract == ExtInit /\ IdleExcept("ext")
NextExtract == ExtAdvance \/ ExtYield \/ ExtExhausted
SpecExtract == InitExtract /\ [][NextExtract]_vars

\* C5: two reportable records whose paths join to the same finding key end
\* the run; no finding key is assigned a second time, so the earlier
\* finding is never overwritten by a later one.
C5_DuplicateFindingKeyFatal ==
    \A i, j \in 1..Len(vaWrites) : vaWrites[i] = vaWrites[j] => i = j

\* C7: at the moment a pair is yielded its path is the sequence of mapping
\* keys and list indices leading from the root to the matched record.
C7_YieldedPathIsKeysAndIndices ==
    \A i \in 1..Len(extYields) : extYields[i].path = extYields[i].true

\* The mappings that directly hold the marker and have no ancestor mapping
\* holding it, with the keys and indices leading to each, in document order.
RECURSIVE TopMatches(_, _), TopMatchesOfKids(_, _, _)
TopMatches(var, path) ==
    IF var.kind = "dict" /\ MarkerKey \in Range(var.keys)
    THEN <<[true |-> path, record |-> var]>>
    ELSE IF var.kind \in {"dict", "list"} THEN TopMatchesOfKids(var, path, 1)
    ELSE << >>
TopMatchesOfKids(var, path, i) ==
    IF i > Len(var.kids) THEN << >>
    ELSE TopMatches(var.kids[i],
                    Append(path, IF var.kind = "dict" THEN KeyComp(var.keys[i])
                                 ELSE IndexComp(i - 1)))
             \o TopMatchesOfKids(var, path, i + 1)

\* The records yielded so far and where each stands in the input.
YieldedMatches ==
    [i \in 1..Len(extYields) |-> [true |-> extYields[i].true, record |-> extYields[i].record]]

\* C15: the pairs yielded are, one each and in order, the mappings that
\* directly hold the marker and have no ancestor holding it: none nested in
\* a matched record, none for an input without the marker; at exhaustion
\* all of them have been yielded.
C15_OneYieldPerTopmostMatch ==
    LET expected == TopMatches(extData, << >>)
    IN  /\ Len(YieldedMatches) <= Len(expected)
        /\ YieldedMatches = SubSeq(expected, 1, Len(YieldedMatches))
        /\ vaPc = "returned" => YieldedMatches = expected

\* The traversal of the input with the marker at depth 5 is exhausted.
C15_Witness ==
    /\ vaPc = "returned"
    /\ extData = Chain(5, RecTrue)
    /\ Len(extYields) = 1
    /\ Len(extYields[1].true) = 5

\* C16: a traversal never changes the input structure; the path buffer holds
\* one component for every call below the outermost one that is still
\* running, and is empty again when the generator is exhausted.
C16_InputKeptAndPathUnwound ==
    /\ [](extStack # << >> => Len(extPath) = Len(extStack) - 1)
    /\ [](extStack = << >> => extPath = << >>)
    /\ [][extData' = extData]_vars

\* A traversal that went through a list and a dict below it is exhausted.
C16_Witness ==
    /\ vaPc = "returned"
    /\ extStack = << >>
    /\ extPath = << >>
    /\ \E i \in 1..Len(extYields) :
          /\ Len(extYields[i].path) = 3
          /\ extYields[i].path[2].tag = "elem"

\* A yielded pair that vetr_analyse_output is to report: marker true, no
\* error field, not the suppressed recommendation.
Reportable(y) ==
    /\ Truthy(Lookup(y.record, MarkerKey))
    /\ "error" \notin Range(y.record.keys)
    /\ ~(/\ y.true = <<KeyComp("fabric"), KeyComp("bfdFabricInt")>>
         /\ HasRecommendedEnabled(y.record)
         /\ IsTrue(Lookup(Lookup(y.record, "recommended"), "enabled")))

\* C17: the output returned has exactly one entry for each extracted record
\* with marker true, no error field and not suppressed, keyed "vetR_" and
\* the joined path; a record with marker false or with an error field is
\* not in the output and does not end the run.
C17_OneEntryPerReportableRecord ==
    LET reported == {i \in 1..Len(extYields) : Reportable(extYields[i])}
    IN  /\ vaPc = "returned" =>
              /\ Cardinality(DOMAIN vaOutput) = Cardinality(reported)
              /\ \A i \in reported :
                    /\ (VetrTestPrefix \o JoinUnderscore(extYields[i].true)) \in DOMAIN vaOutput
                    /\ vaOutput[VetrTestPrefix \o JoinUnderscore(extYields[i].true)]
                          = extYields[i].record
        /\ (Len(extYields) > 0 /\ ~Reportable(extYields[Len(extYields)]))
              => vaPc \in {"iterating", "returned"}

\* The yielded pairs for fabric/bfdFabricInt whose recommended state is enabled = true.
SuppressedYields ==
    {i \in 1..Len(extYields) :
        /\ extYields[i].true = <<KeyComp("fabric"), KeyComp("bfdFabricInt")>>
        /\ HasRecommendedEnabled(extYields[i].record)
        /\ IsTrue(Lookup(Lookup(extYields[i].record, "recommended"), "enabled"))}

\* C18: the record at fabric/bfdFabricInt whose recommended state is
\* enabled = true is never in the output, whatever its marker; dropping it
\* does not end the run, and the findings before and after it are stored.
C18_BuggyBfdRecommendationDropped ==
    /\ \A i \in SuppressedYields :
          /\ \A k \in DOMAIN vaOutput : vaOutput[k] # extYields[i].record
          /\ i = Len(extYields) => vaPc \in {"iterating", "returned"}
    /\ (vaPc = "returned" /\ SuppressedYields # {}) =>
          \A i \in 1..Len(extYields) :
             (Reportable(extYields[i]) /\ Joinable(extYields[i].path))
                => (VetrTestPrefix \o JoinUnderscore(extYields[i].path)) \in DOMAIN vaOutput

\* The recommendation was dropped with its marker true, and the finding
\* after it in the same section was stored.
C18_Witness ==
    /\ vaPc = "returned"
    /\ \E i \in SuppressedYields : Truthy(Lookup(extYields[i].record, MarkerKey))
    /\ (VetrTestPrefix \o "fabric_coopStrict") \in DOMAIN vaOutput
    /\ (VetrTestPrefix \o "fabric_bfdFabricInt") \notin DOMAIN vaOutput

(***************************************************************************)
(* ssd_analyze_output                                                      *)
(***************************************************************************)

\* __ssd_thresholds_major, __ssd_thresholds_critical
SsdThresholdsMajor == 80
SsdThresholdsCritical == 90

\* __test_name
SsdTestName == "ssd_faults"

\* Bound on the number of lines of a report that is not one of the fixed ones.
MaxLines == 5

\* A line of the report, by what the startswith tests and the regular
\* expressions make of it after strip():
\*   node       "Node: <digits>"
\*   node_bad   starts with "Node:" and is not "Node: <digits>"
\*   model      "Model: <text>"
\*   model_bad  starts with "Model:" and has no text
\*   blank      empty
\*   metric     "<description> (<id>): ... (<usage>%)" with a usage float() reads
\*   metric_nan the same with a usage float() rejects
\*   other      anything else
Line(kind, node, type, usage) == [kind |-> kind, node |-> node, type |-> type, usage |-> usage]
NodeLine(id) == Line("node", id, "", 0)
ModelLine == Line("model", "", "", 0)
BlankLine == Line("blank", "", "", 0)
MetricLine(type, usage) == Line("metric", "", type, usage)

NodeIds == {"101", "102"}
MetricIds == {"1", "2"}
UsageValues == {50, 80, 85, 90, 95}

LineAlphabet ==
    {NodeLine(n) : n \in NodeIds}
        \cup {MetricLine(t, u) : t \in MetricIds, u \in UsageValues}
        \cup {ModelLine, BlankLine, Line("node_bad", "", "", 0), Line("model_bad", "", "", 0),
              Line("metric_nan", "", "1", 0), Line("other", "", "", 0)}

\* Node: 101 / Model: X / CPU (1): used (95%) / blank / Node: 102 / Model: Y /
\* CPU (1): used (50%)
ExampleReport ==
    <<NodeLine("101"), ModelLine, MetricLine("1", 95), BlankLine,
      NodeLine("102"), ModelLine, MetricLine("1", 50)>>

\* A report read line by line without being fixed beforehand.
FreeReport == <<Line("free", "", "", 0)>>

\* __ssd_usage is None
NoUsage == [present |-> FALSE, node |-> "", model |-> FALSE, metrics |-> << >>]

\* A new node entry that takes over the usage entries of the one before it.
NewUsageKeepingMetrics(id) ==
    [present |-> TRUE, node |-> "node-" \o id, model |-> FALSE, metrics |-> ssdUsage.metrics]

\* __ssd_usage = dict(); __ssd_usage["node"] = "node-" + __node_id
NewUsage(id) == [present |-> TRUE, node |-> "node-" \o id, model |-> FALSE, metrics |-> << >>]

\* __ssd_usage["type_" + __type_id] = {...}: a key already present keeps its
\* place among the keys, a new key goes last.
SetMetric(metrics, type, usage) ==
    IF \E i \in 1..Len(metrics) : metrics[i].id = type
    THEN [i \in 1..Len(metrics) |->
             IF metrics[i].id = type THEN [id |-> type, usage |-> usage] ELSE metrics[i]]
    ELSE Append(metrics, [id |-> type, usage |-> usage])

\* The check of the major threshold that does not set actionRecommended.
CheckMajorNotRecommending(action, node, usage) ==
    IF usage >= SsdThresholdsMajor
    THEN [action EXCEPT
            !.major = IF node \notin Range(@) /\ node \notin Range(action.critical)
                      THEN Append(@, node) ELSE @]
    ELSE action

\* The check of the major threshold without "if already present in critical".
CheckMajorIgnoringCritical(action, node, usage) ==
    IF usage >= SsdThresholdsMajor
    THEN [action EXCEPT
            !.actionRecommended = TRUE,
            !.major = IF node \notin Range(@) THEN Append(@, node) ELSE @]
    ELSE action

\* The check of the critical threshold with an exclusive comparison.
CheckCriticalAbove(action, node, usage) ==
    IF usage > SsdThresholdsCritical
    THEN [action EXCEPT
            !.actionRecommended = TRUE,
            !.critical = IF node \notin Range(@) THEN Append(@, node) ELSE @]
    ELSE action

\* "Check critical threshold" for one usage entry of a node.
CheckCritical(action, node, usage) ==
    IF usage >= SsdThresholdsCritical
    THEN [action EXCEPT
            !.actionRecommended = TRUE,
            !.critical = IF node \notin Range(@) THEN Append(@, node) ELSE @]
    ELSE action

\* "Check major threshold" for one usage entry of a node.
CheckMajor(action, node, usage) ==
    IF usage >= SsdThresholdsMajor
    THEN [action EXCEPT
            !.actionRecommended = TRUE,
            !.major = IF node \notin Range(@) /\ node \notin Range(action.critical)
                      THEN Append(@, node) ELSE @]
    ELSE action

\* The loop "for __entry in __ssd_usage.keys()" over the usage entries of a node.
RECURSIVE CheckEntries(_, _, _)
CheckEntries(action, node, metrics) ==
    IF metrics = << >> THEN action
    ELSE CheckEntries(
             CheckMajor(CheckCritical(action, node, Head(metrics).usage),
                        node, Head(metrics).usage),
             node, Tail(metrics))

\* "process findings (if any)" for the node entry that ends.
ProcessFindings(action, usage) ==
    IF usage.present THEN CheckEntries(action, usage.node, usage.metrics) ELSE action

\* The metric keys of a node entry whose usage is at or above the major threshold.
CrossedIn(usage) ==
    IF usage.present
    THEN {"type_" \o usage.metrics[i].id :
             i \in {j \in 1..Len(usage.metrics) : usage.metrics[j].usage >= 80}}
    ELSE {}

\* The history of the lines before the first line:
\*   nodes        the ids of the lines "Node: <digits>" read, in order
\*   lastNodeGood the latest line starting with "Node:" was "Node: <digits>"
\*   since        metric id -> usage of the latest line of that metric read
\*                since the latest line starting with "Node:"
\*   sinceGood    the same since the latest line "Node: <digits>"
\*   highNodes    the nodes whose block ended holding a usage at or above
\*                the major threshold
\*   critNodes    the same for the critical threshold
NoHistory ==
    [nodes |-> << >>, lastNodeGood |-> FALSE, since |-> << >>, sinceGood |-> << >>,
     highNodes |-> {}, critNodes |-> {}]

\* The block of the latest "Node: <digits>" line ends.
HistBlockEnds(h) ==
    IF h.lastNodeGood
    THEN LET node == "node-" \o h.nodes[Len(h.nodes)]
             reaches(threshold) == \E t \in DOMAIN h.since : h.since[t] >= threshold
         IN  [h EXCEPT
                !.highNodes = IF reaches(SsdThresholdsMajor) THEN @ \cup {node} ELSE @,
                !.critNodes = IF reaches(SsdThresholdsCritical) THEN @ \cup {node} ELSE @]
    ELSE h

\* The history after the line was read.
HistAfterLine(h, line) ==
    IF line.kind = "node"
    THEN [HistBlockEnds(h) EXCEPT !.nodes = Append(@, line.node), !.lastNodeGood = TRUE,
                                  !.since = << >>, !.sinceGood = << >>]
    ELSE IF line.kind = "node_bad"
    THEN [HistBlockEnds(h) EXCEPT !.lastNodeGood = FALSE, !.since = << >>]
    ELSE IF line.kind = "metric"
    THEN [h EXCEPT
            !.since = IF h.lastNodeGood THEN (line.type :> line.usage) @@ @ ELSE @,
            !.sinceGood = IF h.nodes # << >> THEN (line.type :> line.usage) @@ @ ELSE @]
    ELSE h

SsdInit ==
    /\ ssdHist = NoHistory
    /\ ssdInput \in {ExampleReport, FreeReport}
    /\ ssdIdx = 1
    /\ ssdPc = "reading"
    /\ ssdUsage = NoUsage
    /\ ssdAction = [actionRecommended |-> FALSE, critical |-> << >>, major |-> << >>]
    /\ ssdOutput = << >>
    /\ ssdCrossed = {}
    /\ ssdEvaluated = << >>

\* The lines the next iteration of "for __line in ssd_data" may read.
NextLines ==
    IF ssdInput = FreeReport THEN LineAlphabet ELSE {ssdInput[ssdIdx]}

\* The report has a further line.
MoreLines ==
    IF ssdInput = FreeReport THEN ssdIdx <= MaxLines ELSE ssdIdx <= Len(ssdInput)

\* History of an evaluation of the node entry usage.
SsdRecordEvaluation(usage) ==
    /\ ssdCrossed' = ssdCrossed \cup CrossedIn(usage)
    /\ ssdEvaluated' = IF usage.present THEN Append(ssdEvaluated, usage.node)
                       ELSE ssdEvaluated

\* One iteration of "for __line in ssd_data" for a line starting with "Node:".
SsdNodeLine ==
    /\ ssdPc = "reading"
    /\ MoreLines
    /\ \E line \in NextLines :
          /\ line.kind \in {"node", "node_bad"}
          /\ ssdHist' = HistAfterLine(ssdHist, line)
          /\ ssdAction' = ProcessFindings(ssdAction, ssdUsage)
          /\ SsdRecordEvaluation(ssdUsage)
          /\ ssdUsage' = IF line.kind = "node" THEN NewUsage(line.node) ELSE NoUsage
    /\ ssdIdx' = ssdIdx + 1
    /\ UNCHANGED <<ssdInput, ssdPc, ssdOutput, OthersOfSsd>>

\* One iteration for a line starting with "Model:", an empty line, or a line
\* that no expression matches.
SsdOtherLine ==
    /\ ssdPc = "reading"
    /\ MoreLines
    /\ \E line \in NextLines :
          /\ line.kind \in {"model", "model_bad", "blank", "other"}
          /\ ssdHist' = HistAfterLine(ssdHist, line)
          /\ ssdUsage' = IF line.kind = "model" /\ ssdUsage.present
                         THEN [ssdUsage EXCEPT !.model = TRUE]
                         ELSE ssdUsage
    /\ ssdIdx' = ssdIdx + 1
    /\ UNCHANGED <<ssdInput, ssdPc, ssdAction, ssdOutput, ssdCrossed, ssdEvaluated,
                   OthersOfSsd>>

\* One iteration for a usage line; float() raises ValueError on a usage
\* that is no number.
SsdMetricLine ==
    /\ ssdPc = "reading"
    /\ MoreLines
    /\ \E line \in NextLines :
          /\ line.kind \in {"metric", "metric_nan"}
          /\ ssdHist' = HistAfterLine(ssdHist, line)
          /\ IF ssdUsage.present /\ line.kind = "metric_nan"
             THEN ssdPc' = "crash" /\ UNCHANGED ssdUsage
             ELSE /\ ssdPc' = ssdPc
                  /\ ssdUsage' = IF ssdUsage.present
                                 THEN [ssdUsage EXCEPT
                                         !.metrics = SetMetric(@, line.type, line.usage)]
                                 ELSE ssdUsage
    /\ ssdIdx' = ssdIdx + 1
    /\ UNCHANGED <<ssdInput, ssdAction, ssdOutput, ssdCrossed, ssdEvaluated, OthersOfSsd>>

\* __output of the given __ssd_action.
SsdOutputOf(action) ==
    IF action.actionRecommended THEN (SsdTestName :> action) ELSE << >>

\* After the last line: "Check threshold for last node entry in input", then
\* the output is built and returned.
SsdReturn ==
    /\ ssdPc = "reading"
    /\ ssdInput = FreeReport \/ ~MoreLines
    /\ ssdAction' = ProcessFindings(ssdAction, ssdUsage)
    /\ SsdRecordEvaluation(ssdUsage)
    /\ ssdOutput' = SsdOutputOf(ssdAction')
    /\ ssdHist' = HistBlockEnds(ssdHist)
    /\ ssdPc' = "returned"
    /\ UNCHANGED <<ssdInput, ssdIdx, ssdUsage, OthersOfSsd>>

InitSsd == SsdInit /\ IdleExcept("ssd")
NextSsd == SsdNodeLine \/ SsdOtherLine \/ SsdMetricLine \/ SsdReturn
SpecSsd == InitSsd /\ [][NextSsd]_vars

ActionAfterEntries(count) ==
    CheckEntries(ssdAction, ssdUsage.node, SubSeq(ssdUsage.metrics, 1, count))

\* C26: when the evaluation of a node comes to a usage entry at or above the
\* critical threshold, the two checks of that entry leave the node in the
\* critical list and leave the major list as it was before the entry: the
\* node is not added to major on account of that entry.
\* In the run that returned, the node never had an entry below the critical
\* threshold: no block of it that was evaluated held one.
OnlyCriticalEntries(node) ==
    /\ \A i \in 1..Len(ssdUsage.metrics) :
           ssdUsage.metrics[i].usage >= SsdThresholdsCritical
    /\ \A i \in 1..(Len(ssdEvaluated) - 1) : ssdEvaluated[i] # node

C26_CriticalEntryNeverAddsToMajor ==
    /\ ssdPc = "reading" /\ ssdUsage.present =>
          \A i \in 1..Len(ssdUsage.metrics) :
              ssdUsage.metrics[i].usage >= SsdThresholdsCritical =>
                  /\ ssdUsage.node \in Range(ActionAfterEntries(i).critical)
                  /\ ActionAfterEntries(i).major = ActionAfterEntries(i - 1).major
    /\ ssdPc = "returned" /\ ssdUsage.present =>
          /\ \A i \in 1..Len(ssdUsage.metrics) :
                 ssdUsage.metrics[i].usage >= SsdThresholdsCritical =>
                     ssdUsage.node \in Range(ssdAction.critical)
          /\ OnlyCriticalEntries(ssdUsage.node) =>
                 ssdUsage.node \notin Range(ssdAction.major)

\* A node whose only entry is at or above the critical threshold has been
\* evaluated: it is in the critical list and not in the major list.
C26_Witness ==
    /\ ssdPc = "returned"
    /\ ssdUsage.present
    /\ Len(ssdUsage.metrics) = 1
    /\ ssdUsage.metrics[1].usage >= SsdThresholdsCritical
    /\ ssdUsage.node \in Range(ssdAction.critical)
    /\ ssdUsage.node \notin Range(ssdAction.major)

\* The usage entries of a node entry as metric id -> usage.
UsageById(metrics) ==
    [t \in {metrics[i].id : i \in 1..Len(metrics)} |->
        metrics[CHOOSE i \in 1..Len(metrics) : metrics[i].id = t].usage]

\* The node of the latest line "Node: <digits>".
LatestNode == "node-" \o ssdHist.nodes[Len(ssdHist.nodes)]

\* Every block of a line "Node: <digits>" that has ended was evaluated once,
\* in the order of the report: a block ends with the next line starting with
\* "Node:" or, for the last one, after the last line. The block that is
\* still open has not been evaluated.
BlocksEvaluatedOnce ==
    LET open == IF ssdPc # "returned" /\ ssdHist.lastNodeGood THEN 1 ELSE 0
    IN  ssdEvaluated = [i \in 1..(Len(ssdHist.nodes) - open) |-> "node-" \o ssdHist.nodes[i]]

\* C27 as stated: every node block is evaluated exactly once, and the metric
\* lines read since the most recent line "Node: <digits>" are the entries of
\* that node.
C27_MetricsGoToLatestNumberedNode ==
    /\ BlocksEvaluatedOnce
    /\ ssdHist.nodes # << >> /\ ssdHist.sinceGood # << >> =>
          /\ ssdUsage.present
          /\ ssdUsage.node = LatestNode
          /\ UsageById(ssdUsage.metrics) = ssdHist.sinceGood

\* C27 amended: every node block is evaluated exactly once; a metric line is
\* attributed to the most recent line starting with "Node:" if that line is
\* "Node: <digits>", and to no node otherwise (after "Node: abc" the metric
\* lines up to the next "Node: <digits>" are dropped).
C27_MetricsGoToLatestNodeLine ==
    /\ BlocksEvaluatedOnce
    /\ ssdUsage.present <=> ssdHist.lastNodeGood
    /\ ssdUsage.present =>
          /\ ssdUsage.node = LatestNode
          /\ UsageById(ssdUsage.metrics) = ssdHist.since

\* Two blocks with a metric line each were evaluated, the first when the
\* second "Node:" line was read, the second after the last line.
C27_Witness ==
    /\ ssdPc = "returned"
    /\ Len(ssdHist.nodes) = 2
    /\ Len(ssdEvaluated) = 2
    /\ ssdEvaluated[1] # ssdEvaluated[2]
    /\ ssdUsage.present /\ ssdUsage.metrics # << >>
    /\ ssdHist.highNodes = {ssdEvaluated[1]}

\* The thresholds are inclusive: the last node entry of a run that returned
\* is in the critical list if it holds a usage of exactly 90, and in one of
\* the two lists if it holds a usage of exactly 80.
ThresholdsInclusive ==
    ssdPc = "returned" /\ ssdUsage.present =>
        \A i \in 1..Len(ssdUsage.metrics) :
            /\ ssdUsage.metrics[i].usage = 90 =>
                  ssdUsage.node \in Range(ssdAction.critical)
            /\ ssdUsage.metrics[i].usage = 80 =>
                  ssdUsage.node \in Range(ssdAction.critical) \cup Range(ssdAction.major)

\* C28: the result is empty if and only if no metric of any node has a usage
\* at or above 80%, a metric of a node being the entry its block holds for a
\* metric id (the usage of the latest line of that id); the critical list is
\* the nodes with a metric at or above 90%, the major list holds the other
\* nodes with a metric at or above 80%; the thresholds are inclusive.
C28_EmptyIffNoHeldMetricHigh ==
    /\ ssdPc = "returned" =>
          /\ ssdOutput = << >> <=> ssdHist.highNodes = {}
          /\ Range(ssdAction.critical) = ssdHist.critNodes
          /\ ssdHist.highNodes \ ssdHist.critNodes \subseteq Range(ssdAction.major)
          /\ Range(ssdAction.major) \subseteq ssdHist.highNodes
          /\ ssdOutput # << >> => ssdOutput[SsdTestName] = ssdAction
    /\ ThresholdsInclusive

\* A run returned a result in which one node is critical and the last node,
\* whose only usage is exactly 80, is major.
C28_Witness ==
    /\ ssdPc = "returned"
    /\ ssdOutput # << >>
    /\ ssdHist.critNodes # {}
    /\ ssdUsage.present
    /\ Len(ssdUsage.metrics) = 1
    /\ ssdUsage.metrics[1].usage = 80
    /\ ssdUsage.node \in Range(ssdOutput[SsdTestName].major)

(***************************************************************************)
(* generate_audit_report: combining the findings of the sources            *)
(***************************************************************************)

\* Keys the rendering of each source can hand to the combination: a vetR
\* key is "vetR_" and a path below a section of the payload, a NAE/NDI
\* key is "nae_" and the name the server gives the event, the SSD key is
\* ssd_faults.
VetrFindingKeys == {VetrTestPrefix \o "fabric_coopStrict", VetrTestPrefix \o "fabric_bfdFabricInt"}
NaeFindingKeys == {NdiTestPrefix \o "BD_HAS_NO_SUBNET", NdiTestPrefix \o "analysis_enabled"}
SsdFindingKeys == {SsdTestName}

\* __rendered_output[key] of vetr_render_actions and nae_render_smart_events:
\* the rendered template, or the error of a rendering that failed.
Rendered(source, key, success) ==
    [kind |-> "rendered", source |-> source, template |-> key \o ".md", success |-> success]

\* The outputs the rendering of a source can have over the given keys.
RenderedOutputs(source, keys) ==
    UNION {{[k \in ks |-> Rendered(source, k, ok[k])] : ok \in [ks -> BOOLEAN]} :
             ks \in SUBSET keys}

\* The values of vetR_analysis_enabled, nae_analysis_enabled, ssd_analysis_enabled.
Flag(b) == [kind |-> "flag", value |-> b]

\* combined_findings["main_document"] with the customer and engineer name and,
\* when NAE/NDI is enabled and events without details exist, their list.
MainDocument(enable, emptyEvents) ==
    IF enable.nae /\ Len(emptyEvents) > 0
    THEN [kind |-> "main_document", customer_name |-> "customer", engineer_name |-> "engineer",
          nae_empty_events |-> emptyEvents]
    ELSE [kind |-> "main_document", customer_name |-> "customer", engineer_name |-> "engineer"]

\* What vetR_data["stats"]["inventory"] is like: it holds "devices", it is a
\* dict without "devices", or a key on the way to it is missing.
InventoryCases == {"devices", "no_devices", "key_error"}

\* "Extract HW Inventory information": combined_findings["hw_inventory"] is
\* the device list of vetR, None when vetR is disabled or a key is missing,
\* and is not assigned when the inventory has no "devices".
WithHwInventory(d, enable, inventory) ==
    IF ~enable.vetr \/ inventory = "key_error"
    THEN ("hw_inventory" :> [kind |-> "hw_inventory", devices |-> "None"]) @@ d
    ELSE IF inventory = "devices"
    THEN ("hw_inventory" :> [kind |-> "hw_inventory", devices |-> "devices"]) @@ d
    ELSE d

\* d.update(e): the entries of e replace those of d.
DictUpdate(d, e) == e @@ d

\* d[k] = v
DictSet(d, k, v) == (k :> v) @@ d

\* The three flags one branch of the combination sets.
SetFlags(d, vetr, nae, ssd) ==
    DictSet(DictSet(DictSet(d, "vetR_analysis_enabled", Flag(vetr)),
                    "nae_analysis_enabled", Flag(nae)),
            "ssd_analysis_enabled", Flag(ssd))

\* The chain "if enable_vetr and enable_nae and enable_ssd ... elif enable_ssd".
CombinedFindings(enable, vetr, nae, ssd) ==
    IF enable.vetr /\ enable.nae /\ enable.ssd
    THEN SetFlags(DictUpdate(DictUpdate(vetr, nae), ssd), TRUE, TRUE, TRUE)
    ELSE IF enable.vetr /\ enable.nae
    THEN SetFlags(DictUpdate(vetr, nae), TRUE, TRUE, FALSE)
    ELSE IF enable.vetr /\ enable.ssd
    THEN SetFlags(DictUpdate(vetr, ssd), TRUE, FALSE, TRUE)
    ELSE IF enable.nae /\ enable.ssd
    THEN SetFlags(DictUpdate(nae, ssd), FALSE, TRUE, TRUE)
    ELSE IF enable.vetr
    THEN SetFlags(vetr, TRUE, FALSE, FALSE)
    ELSE IF enable.nae
    THEN SetFlags(nae, FALSE, TRUE, FALSE)
    ELSE SetFlags(ssd, FALSE, FALSE, TRUE)

\* State before "Combining findings into a single dictionary": the output of
\* a source exists only when the source is enabled.
MrgInit ==
    /\ mrgEnable \in [vetr : BOOLEAN, nae : BOOLEAN, ssd : BOOLEAN]
    /\ mrgVetr \in IF mrgEnable.vetr THEN RenderedOutputs("vetR", VetrFindingKeys)
                   ELSE {Unbound}
    /\ mrgNae \in IF mrgEnable.nae THEN RenderedOutputs("nae", NaeFindingKeys)
                  ELSE {Unbound}
    /\ mrgSsd \in IF mrgEnable.ssd THEN RenderedOutputs("ssd", SsdFindingKeys)
                  ELSE {Unbound}
    /\ mrgEmptyEvents \in IF mrgEnable.nae THEN {<< >>, <<NdiTestPrefix \o "NO_DETAILS">>}
                          ELSE {Unbound}
    /\ mrgCombined = Unbound
    /\ mrgPc = "combining"

\* The findings are combined, the flags set, main_document and hw_inventory
\* added.
MrgCombine ==
    /\ mrgPc = "combining"
    /\ mrgEnable.vetr \/ mrgEnable.nae \/ mrgEnable.ssd
    /\ \E inventory \in IF mrgEnable.vetr THEN InventoryCases ELSE {"key_error"} :
          mrgCombined' =
              WithHwInventory(
                  DictSet(CombinedFindings(mrgEnable, mrgVetr, mrgNae, mrgSsd),
                          "main_document", MainDocument(mrgEnable, mrgEmptyEvents)),
                  mrgEnable, inventory)
    /\ mrgPc' = "combined"
    /\ UNCHANGED <<mrgEnable, mrgVetr, mrgNae, mrgSsd, mrgEmptyEvents, OthersOfMrg>>

\* "Processing of both ACI vetR, NAE, and SSD disabled, exiting....."
MrgAllDisabled ==
    /\ mrgPc = "combining"
    /\ ~(mrgEnable.vetr \/ mrgEnable.nae \/ mrgEnable.ssd)
    /\ mrgPc' = "exit_disabled"
    /\ UNCHANGED <<mrgEnable, mrgVetr, mrgNae, mrgSsd, mrgEmptyEvents, mrgCombined,
                   OthersOfMrg>>

InitMerge == MrgInit /\ IdleExcept("mrg")
NextMerge == MrgCombine \/ MrgAllDisabled
SpecMerge == InitMerge /\ [][NextMerge]_vars

\* The output of each enabled source, by source name.
MrgSources ==
    [s \in {n \in {"vetr", "nae", "ssd"} : mrgEnable[n]} |->
        IF s = "vetr" THEN mrgVetr ELSE IF s = "nae" THEN mrgNae ELSE mrgSsd]

BookkeepingKeys ==
    {"vetR_analysis_enabled", "nae_analysis_enabled", "ssd_analysis_enabled",
     "main_document", "hw_inventory"}

\* No finding key is in the mapping of two enabled sources.
NoOverlappingKeys ==
    \A s, t \in DOMAIN MrgSources :
        s # t => DOMAIN MrgSources[s] \cap DOMAIN MrgSources[t] = {}

\* The mappings of the enabled sources put together by update() in the
\* given order of the sources.
RECURSIVE UpdatedInOrder(_)
UpdatedInOrder(order) ==
    IF order = << >> THEN << >>
    ELSE DictUpdate(UpdatedInOrder(SubSeq(order, 1, Len(order) - 1)),
                    MrgSources[order[Len(order)]])

\* C29: when no key is in the mapping of two enabled sources, the combined
\* mapping holds every key of every enabled source with the record of that
\* source, its other keys are bookkeeping keys, and putting the sources
\* together in any other order gives the same finding entries.
C29_DisjointMergeIsExactUnion ==
    mrgPc = "combined" /\ NoOverlappingKeys =>
        /\ \A s \in DOMAIN MrgSources : \A k \in DOMAIN MrgSources[s] :
               k \in DOMAIN mrgCombined /\ mrgCombined[k] = MrgSources[s][k]
        /\ DOMAIN mrgCombined \ UNION {DOMAIN MrgSources[s] : s \in DOMAIN MrgSources}
               \subseteq BookkeepingKeys
        /\ \A order \in Orderings(DOMAIN MrgSources) :
               \A k \in DOMAIN mrgCombined \ BookkeepingKeys :
                  mrgCombined[k] = UpdatedInOrder(order)[k]

(***************************************************************************)
(* nae_session.read_in_chunks, nae_session.nae_upload_file_chunk           *)
(***************************************************************************)

\* defined_chunk_size
DefinedChunkSize == 10000000

\* Bound on the number of chunks of an uploaded file.
MaxChunks == 3

\* Sizes of the uploaded file: every multiple of the chunk size up to the
\* bound, and below the bound each multiple plus one byte, plus half a chunk
\* and plus a chunk less one byte.
UploadSizes ==
    {k * DefinedChunkSize + d :
        k \in 0..(MaxChunks - 1),
        d \in {0, 1, DefinedChunkSize \div 2, DefinedChunkSize - 1}}
      \cup {MaxChunks * DefinedChunkSize}

\* str(n) of a non-negative int: its decimal digits.
RECURSIVE Str(_)
Str(n) ==
    IF n < 10 THEN SubSeq("0123456789", n + 1, n + 1)
    ELSE Str(n \div 10) \o SubSeq("0123456789", (n % 10) + 1, (n % 10) + 1)

\* The chunk count taken as the whole part of the quotient.
AmountOfChunksFloor(size) == size \div DefinedChunkSize

\* int(math.ceil(float(content_size) / float(defined_chunk_size))); the
\* quotient of two floats is exact enough for every size below 2^53.
AmountOfChunks(size) ==
    IF size % DefinedChunkSize = 0 THEN size \div DefinedChunkSize
    ELSE (size \div DefinedChunkSize) + 1

\* len(file_object.read(chunk_size)) of a regular file of the given size
\* read from position pos: chunk_size bytes, or what is left before the end.
ReadLength(pos, size) ==
    IF size - pos < DefinedChunkSize THEN size - pos ELSE DefinedChunkSize

\* chunk_info before json.dumps: chunk_id, size_in_bytes, offset for NAE and
\* chunkId, sizeInBytes, offset for NDI.
ChunkInfo(version, index, chunksize, offset) ==
    IF version = "nae"
    THEN [part |-> "chunk-info", data |-> "chunk-data",
          names |-> <<"chunk_id", "size_in_bytes", "offset">>,
          values |-> <<index, chunksize, offset>>]
    ELSE [part |-> "chunkInfo", data |-> "chunkData",
          names |-> <<"chunkId", "sizeInBytes", "offset">>,
          values |-> <<index, chunksize, offset>>]

\* The fields of the MultipartEncoder of one chunk (qqfilename and qquuid
\* are the same in every request and left out; the chunk data is given by
\* its length).
MultipartFields(version, index, offset, chunksize, total, size) ==
    [qqpartindex |-> Str(index),
     qqpartbyteoffset |-> Str(offset),
     qqchunksize |-> Str(chunksize),
     qqtotalparts |-> Str(total),
     qqtotalfilesize |-> Str(size),
     chunk_info |-> ChunkInfo(version, index, chunksize, offset),
     chunk_data |-> chunksize]

\* State after "index = 0; offset = 0" inside "with open(filename, 'rb')".
UpInit ==
    /\ upVersion \in {"nae", "ndi"}
    /\ upContentSize \in UploadSizes
    /\ upAmountOfChunks = AmountOfChunks(upContentSize)
    /\ upPc = "uploading"
    /\ upIndex = 0
    /\ upOffset = 0
    /\ upFilePos = 0
    /\ upResult = Unbound
    /\ upRequests = << >>

\* The request of the next chunk as the loop body builds it.
UpNextRequest ==
    MultipartFields(upVersion, upIndex, upOffset, ReadLength(upFilePos, upContentSize),
                    upAmountOfChunks, upContentSize)

\* One iteration of "for chunk in self.read_in_chunks(...)" whose post
\* returns a response; the status code of the response is not looked at.
UpChunk ==
    /\ upPc = "uploading"
    /\ ReadLength(upFilePos, upContentSize) > 0
    /\ \E code \in {200, 500} : upResult' = code
    /\ upRequests' = Append(upRequests, UpNextRequest)
    /\ upFilePos' = upFilePos + ReadLength(upFilePos, upContentSize)
    /\ upIndex' = upIndex + 1
    /\ upOffset' = upOffset + ReadLength(upFilePos, upContentSize)
    /\ UNCHANGED <<upVersion, upPc, upContentSize, upAmountOfChunks, OthersOfUp>>

\* One iteration whose post raises: the except clause names
\* session.exceptions, which a Session does not have, and the
\* AttributeError ends the upload.
UpPostRaises ==
    /\ upPc = "uploading"
    /\ ReadLength(upFilePos, upContentSize) > 0
    /\ upRequests' = Append(upRequests, UpNextRequest)
    /\ upFilePos' = upFilePos + ReadLength(upFilePos, upContentSize)
    /\ upPc' = "crash"
    /\ UNCHANGED <<upVersion, upContentSize, upAmountOfChunks, upIndex, upOffset, upResult,
                   OthersOfUp>>

\* read() returns no data: read_in_chunks ends, the function returns True.
UpReturn ==
    /\ upPc = "uploading"
    /\ ReadLength(upFilePos, upContentSize) = 0
    /\ upPc' = "returned"
    /\ UNCHANGED <<upVersion, upContentSize, upAmountOfChunks, upIndex, upOffset, upFilePos,
                   upResult, upRequests, OthersOfUp>>

InitUpload == UpInit /\ IdleExcept("up")
NextUpload == UpChunk \/ UpPostRaises \/ UpReturn
SpecUpload == InitUpload /\ [][NextUpload]_vars

\* The number a string of decimal digits denotes.
RECURSIVE ParseDecimal(_)
ParseDecimal(s) ==
    IF Len(s) = 0 THEN 0
    ELSE 10 * ParseDecimal(SubSeq(s, 1, Len(s) - 1))
           + (CHOOSE d \in 0..9 : Str(d) = SubSeq(s, Len(s), Len(s)))

\* The least number of chunks of the defined size that hold size bytes.
LeastChunkCount(size) ==
    CHOOSE n \in 0..(MaxChunks + 1) :
        /\ n * DefinedChunkSize >= size
        /\ \A k \in 0..(MaxChunks + 1) : k * DefinedChunkSize >= size => n <= k

\* The sum of the chunk sizes of the first n requests.
RECURSIVE SentBytes(_)
SentBytes(n) ==
    IF n = 0 THEN 0 ELSE SentBytes(n - 1) + ParseDecimal(upRequests[n].qqchunksize)

\* C20: for a file of size S and the chunk size C = 10,000,000 the chunk
\* requests are sent one after another; the i-th request (i from 0) carries
\* index i, byte offset i*C and the total chunk count ceil(S/C), never more
\* than ceil(S/C) requests are sent, and when the upload returns exactly
\* ceil(S/C) requests were sent with chunk sizes that sum to S (none for
\* S = 0).
C20_ChunkRequestsCoverTheFile ==
    /\ DefinedChunkSize = 10000000
    /\ Len(upRequests) <= LeastChunkCount(upContentSize)
    /\ \A i \in 1..Len(upRequests) :
          /\ ParseDecimal(upRequests[i].qqpartindex) = i - 1
          /\ ParseDecimal(upRequests[i].qqpartbyteoffset) = (i - 1) * DefinedChunkSize
          /\ ParseDecimal(upRequests[i].qqtotalparts) = LeastChunkCount(upContentSize)
          /\ ParseDecimal(upRequests[i].qqtotalfilesize) = upContentSize
          /\ ParseDecimal(upRequests[i].qqchunksize) = upRequests[i].chunk_data
          /\ upRequests[i].chunk_data > 0
          /\ upRequests[i].chunk_info.values =
                <<i - 1, upRequests[i].chunk_data, (i - 1) * DefinedChunkSize>>
    /\ upPc = "returned" =>
          /\ Len(upRequests) = LeastChunkCount(upContentSize)
          /\ SentBytes(Len(upRequests)) = upContentSize
          /\ upContentSize = 0 => upRequests = << >>

\* A file of the largest chunk count whose last chunk is one byte has been
\* uploaded, one response having been an error.
C20_Witness ==
    /\ upPc = "returned"
    /\ Len(upRequests) = MaxChunks
    /\ upRequests[MaxChunks].qqchunksize = "1"
    /\ upRequests[MaxChunks].qqpartbyteoffset = Str((MaxChunks - 1) * DefinedChunkSize)
    /\ upResult = 500

(***************************************************************************)
(* nae_session.handle_request, nae_session.login                           *)
(***************************************************************************)

\* Bound on the number of calls of handle_request on one session.
MaxCalls == 3

\* What requests.get/post/put/delete can raise.
TransportErrors == {"timeout", "connection_error", "invalid_url"}

\* status_code values of a response.
StatusCodes == {200, 201, 202, 204, 400, 404, 500}

\* Bodies of a response, by what __req.json() and the test of "Message"
\* make of them:
\*   json        a JSON value that is truthy and has no "Message"
\*   json_empty  a JSON value that is falsy ({}, [], null)
\*   not_json    json() raises
\*   msg_nodata  JSON whose Message starts with
\*               "Data is not displayed for the given time range start time"
\*   msg_other   JSON with another Message
Bodies == {"json", "json_empty", "not_json", "msg_nodata", "msg_other"}

\* What the transport gives one request: an exception or a response.
Answers ==
    {[kind |-> e, status |-> 0, body |-> ""] : e \in TransportErrors}
      \cup {[kind |-> "response", status |-> c, body |-> b] : c \in StatusCodes, b \in Bodies}

\* No request was sent.
NoAnswer == [kind |-> "none", status |-> 0, body |-> ""]

\* The end of a call: what it returns, or that it ended the run.
Returns(value) == [end |-> "return", value |-> value]
Exits == [end |-> "exit", value |-> "no_return"]
Raises == [end |-> "crash", value |-> "no_return"]

\* The branch "self.version == 'ndi' and status_code == 400": return(False)
\* for the message of the missing data; for another message the try block
\* ends without a return and so does the function (None); a body without
\* "Message" or that is no JSON reaches the except clause and exit(1).
AfterBadRequest(body) ==
    IF body = "msg_nodata" THEN Returns("False")
    ELSE IF body = "msg_other" THEN Returns("None")
    ELSE Exits

\* handle_request from its try block on: the except clauses of the request
\* and the chain over status_code.
HandleAnswer(version, answer) ==
    IF answer.kind \in TransportErrors THEN Exits
    ELSE IF answer.status \in {200, 201, 202}
    THEN (IF answer.body = "not_json" THEN Returns("True") ELSE Returns(answer.body))
    ELSE IF version = "ndi" /\ answer.status = 404
    THEN (IF answer.body = "not_json" THEN Exits ELSE Returns(answer.body))
    ELSE IF version = "ndi" /\ answer.status = 400
    THEN AfterBadRequest(answer.body)
    ELSE Exits

\* bool() of what handle_request returned.
ResponseTruthy(value) == value \notin {"False", "None", "json_empty"}

\* Outcomes of one request of login: an exception, a status other than 200
\* and 201, or 200/201.
LoginSteps == TransportErrors \cup {"rejected", "accepted"}

\* One request of login. Timeout and ConnectionError exit; InvalidURL is
\* only logged, and the read of __req.status_code that follows fails.
LoginStep(outcome) ==
    IF outcome \in {"timeout", "connection_error"} THEN Exits
    ELSE IF outcome = "invalid_url" THEN Raises
    ELSE IF outcome = "rejected" THEN Returns("False")
    ELSE Returns("True")

\* login(): for NAE the whoami request and then the login request, for NDI
\* the login request; it returns True with the header set, returns False
\* (None after a rejected whoami), or ends the run. wire lists its requests.
Login(version, first, second) ==
    IF version = "ndi"
    THEN LoginStep(first) @@ [wire |-> <<"login">>]
    ELSE IF LoginStep(first) # Returns("True")
    THEN [LoginStep(first) EXCEPT !.value = IF @ = "False" THEN "None" ELSE @]
            @@ [wire |-> <<"whoami">>]
    ELSE LoginStep(second) @@ [wire |-> <<"whoami", "login">>]

\* self.authentication_header = {}: a header is the set of its fields.
EmptyHeader == {}

\* __nae_header of a login that the service answered with the cookie.
NewHeader(version, cookie) ==
    {<<"Content-Type", "application/json">>, <<"Accept", "application/json">>,
     <<"Cookie", cookie>>}
        \cup (IF version = "nae" THEN {<<"X-NAE-CSRF-TOKEN", "token-of-" \o cookie>>}
              ELSE {})

\* Set-Cookie values of the service.
Cookies == {"sid-1", "sid-2"}

\* The test before login taken as true in every call.
LoginNeededAlways(header) == TRUE

\* "if not self.authentication_header"
LoginNeeded(header) == header = EmptyHeader

ReqInit ==
    /\ reqVersion \in {"nae", "ndi"}
    /\ reqPc = "ready"
    /\ reqHeader = EmptyHeader
    /\ reqCalls = 0
    /\ reqWire = << >>
    /\ reqResult = "no_return"
    /\ reqLast = [login |-> "none", sent |-> FALSE, answer |-> NoAnswer]

\* An entry of the history of the wire: the request op of the call, sent
\* with the authentication header auth, the cached header being cached
\* when the call began.
WireEntry(call, op, cached, auth) ==
    [call |-> call, op |-> op, cached |-> cached, auth |-> auth]

\* One call of handle_request: the login if the header is empty, then the
\* request and the handling of its answer.
ReqCall ==
    /\ reqPc = "ready"
    /\ reqCalls < MaxCalls
    /\ \E first, second \in (IF LoginNeeded(reqHeader) THEN LoginSteps ELSE {"accepted"}),
          cookie \in (IF LoginNeeded(reqHeader) THEN Cookies ELSE {"sid-1"}),
          answer \in Answers :
        LET call == reqCalls + 1
            login == IF LoginNeeded(reqHeader) THEN Login(reqVersion, first, second)
                     ELSE [end |-> "none", value |-> "none", wire |-> << >>]
            loginWire == [i \in 1..Len(login.wire) |->
                             WireEntry(call, login.wire[i], reqHeader, EmptyHeader)]
            header == IF login.end = "return" /\ login.value = "True"
                      THEN NewHeader(reqVersion, cookie) ELSE reqHeader
            sends == login.end = "none" \/ (login.end = "return" /\ login.value = "True")
            outcome == IF sends THEN HandleAnswer(reqVersion, answer)
                       ELSE IF login.end = "return" THEN Returns("(False, '')")
                       ELSE [end |-> login.end, value |-> "no_return"]
        IN  /\ reqCalls' = call
            /\ reqHeader' = header
            /\ reqWire' = reqWire \o loginWire \o
                  (IF sends THEN <<WireEntry(call, "request", reqHeader, header)>> ELSE << >>)
            /\ reqResult' = outcome.value
            /\ reqPc' = IF outcome.end = "return" THEN "ready"
                        ELSE IF outcome.end = "exit" THEN "exited" ELSE "crash"
            /\ reqLast' = [login |-> IF login.end = "return" THEN login.value ELSE login.end,
                           sent |-> sends,
                           answer |-> IF sends THEN answer ELSE NoAnswer]
            /\ UNCHANGED <<reqVersion, OthersOfReq>>

InitReq == ReqInit /\ IdleExcept("req")
NextReq == ReqCall
SpecReq == InitReq /\ [][NextReq]_vars

\* C23: of a response, status 200/201/202 is success; in variant B a 404
\* with a parseable body is handed back, and a 400 whose message is the one
\* of the missing data gives False; every other response, in either
\* variant, ends the run, a variant-B 400 with another message included.
C23_OtherStatusEndsTheRun ==
    (reqLast.sent /\ reqLast.answer.kind = "response") =>
        LET status == reqLast.answer.status
            body == reqLast.answer.body
        IN  IF status \in {200, 201, 202}
            THEN reqPc = "ready" /\ reqResult \in {body, "True"}
            ELSE IF reqVersion = "ndi" /\ status = 404 /\ body # "not_json"
            THEN reqPc = "ready" /\ reqResult = body
            ELSE IF reqVersion = "ndi" /\ status = 400 /\ body = "msg_nodata"
            THEN reqPc = "ready" /\ reqResult = "False"
            ELSE reqPc = "exited"

\* The entries of the wire that are requests of login, and those of
\* handle_request itself.
WireLogins == SelectSeq(reqWire, LAMBDA e : e.op \in {"whoami", "login"})
WireRequests == SelectSeq(reqWire, LAMBDA e : e.op = "request")

\* C25: over the calls of handle_request on one session, login is performed
\* only when the cached header is empty; after a successful login every
\* request carries the header of that login and no login follows; when
\* login fails no request is sent and the call returns (False, "").
C25_LoginOnlyWithEmptyHeader ==
    /\ \A i \in 1..Len(WireLogins) : WireLogins[i].cached = EmptyHeader
    /\ \A i \in 1..Len(WireRequests) :
          /\ WireRequests[i].auth # EmptyHeader
          /\ WireRequests[i].auth = WireRequests[1].auth
    /\ \A i, j \in 1..Len(reqWire) :
          (i < j /\ reqWire[i].op = "request") => reqWire[j].op = "request"
    /\ WireRequests # << >> => reqHeader = WireRequests[1].auth
    /\ reqLast.login \in {"False", "None"} =>
          /\ ~reqLast.sent
          /\ reqPc = "ready"
          /\ reqResult = "(False, '')"
          /\ reqHeader = EmptyHeader
          /\ \A i \in 1..Len(reqWire) : reqWire[i].call = reqCalls => reqWire[i].op # "request"

\* A first call whose login failed, a later call that logged in, and a call
\* after it that sent its request without a login.
C25_Witness ==
    /\ reqCalls = MaxCalls
    /\ reqPc = "ready"
    /\ Len(WireRequests) = MaxCalls - 1
    /\ \E i \in 1..Len(reqWire) : reqWire[i].call = 1 /\ reqWire[i].op # "request"
    /\ \A i \in 1..Len(reqWire) : reqWire[i].call = MaxCalls => reqWire[i].op = "request"

(***************************************************************************)
(* nae_session.nae_get_smart_events_by_epoch_id                            *)
(***************************************************************************)

\* Bound on the total_page_count the first response declares.
MaxNaePages == 3
\* Bound on the events of one page.
MaxEventsPerPage == 2

\* smart_event_info.name values of the service.
NaeEventNames == {"BD_HAS_NO_SUBNET", "EPG_IS_NOT_DEPLOYED"}

\* The lists __response["value"]["data"] of one page: the names of its events.
NaePageData ==
    UNION {[1..n -> NaeEventNames] : n \in 0..MaxEventsPerPage}

\* The events of the page pageId with the given names; an event is known by
\* its page and its place on it.
NaeEvents(pageId, names) ==
    [i \in 1..Len(names) |-> [name |-> names[i], page |-> pageId, place |-> i]]

\* The loop body with the event_list set anew for every event.
NaeAddEventKeepingLatest(output, event) ==
    LET key == NdiTestPrefix \o event.name
    IN  (key :> <<event>>) @@ output

\* The body of "for __event in __response['value']['data']": the entry of
\* __test_prefix + name is made if missing, the event appended to its
\* event_list (description and severity are those of the latest event).
NaeAddEvent(output, event) ==
    LET key == NdiTestPrefix \o event.name
    IN  IF key \in DOMAIN output
        THEN [output EXCEPT ![key] = Append(@, event)]
        ELSE (key :> <<event>>) @@ output

\* The loop over the events of one page.
RECURSIVE NaeAddEvents(_, _)
NaeAddEvents(output, events) ==
    IF events = << >> THEN output
    ELSE NaeAddEvents(NaeAddEvent(output, Head(events)), Tail(events))

NaeInit ==
    /\ naePc = "first_page"
    /\ naeOutput = << >>
    /\ naeTotalPageCount = Unbound
    /\ naeCurrentPageCount = Unbound
    /\ naePages = << >>
    /\ naeReceived = << >>
    /\ naeLastAnswer = NoAnswer

\* A page request whose body is no JSON taken for a page without events.
NaePageOutcomeSkippingBadBody(answer) ==
    LET handled == HandleAnswer("nae", answer)
    IN  IF handled.end = "exit" THEN "fatal_transport"
        ELSE IF ~ResponseTruthy(handled.value) THEN "returned_false"
        ELSE IF handled.value \in {"json", "True"} THEN "page"
        ELSE "crash"

\* What becomes of a page request with the given answer of the transport
\* (the session being logged in): handle_request ends the run
\* (fatal_transport); it returns a falsy value and the function returns
\* (False, "") (returned_false); it returns the JSON of a page (page); it
\* returns True for a body that is no JSON, or JSON without value and data,
\* and the subscript of it raises (crash).
NaePageOutcome(answer) ==
    LET handled == HandleAnswer("nae", answer)
    IN  IF handled.end = "exit" THEN "fatal_transport"
        ELSE IF ~ResponseTruthy(handled.value) THEN "returned_false"
        ELSE IF handled.value = "json" THEN "page"
        ELSE "crash"

\* The answers that bring a page.
NaePageAnswers == {answer \in Answers : NaePageOutcome(answer) = "page"}

\* Page 0 is answered with total_page_count total and the events of names;
\* with no further page the function returns (True, __output).
NaeFirstPage ==
    \E total \in 0..MaxNaePages, names \in NaePageData, answer \in NaePageAnswers :
        /\ naePc = "first_page"
        /\ naeLastAnswer' = answer
        /\ naePages' = Append(naePages, 0)
        /\ naeTotalPageCount' = total
        /\ naeOutput' = NaeAddEvents(naeOutput, NaeEvents(0, names))
        /\ naeReceived' = naeReceived \o NaeEvents(0, names)
        /\ IF total > 1
           THEN naeCurrentPageCount' = 1 /\ naePc' = "pages"
           ELSE naeCurrentPageCount' = naeCurrentPageCount /\ naePc' = "returned_true"
        /\ UNCHANGED OthersOfNae

\* One iteration of "while __current_page_count < __total_page_count".
NaeNextPage ==
    \E names \in NaePageData, answer \in NaePageAnswers :
        /\ naePc = "pages"
        /\ naeLastAnswer' = answer
        /\ naePages' = Append(naePages, naeCurrentPageCount)
        /\ naeOutput' = NaeAddEvents(naeOutput, NaeEvents(naeCurrentPageCount, names))
        /\ naeReceived' = naeReceived \o NaeEvents(naeCurrentPageCount, names)
        /\ naeCurrentPageCount' = naeCurrentPageCount + 1
        /\ naePc' = IF naeCurrentPageCount' < naeTotalPageCount
                    THEN "pages" ELSE "returned_true"
        /\ UNCHANGED <<naeTotalPageCount, OthersOfNae>>

\* A page request that brings no page.
NaePageFails ==
    \E answer \in Answers \ NaePageAnswers :
        /\ naePc \in {"first_page", "pages"}
        /\ naeLastAnswer' = answer
        /\ naePages' = Append(naePages, IF naePc = "first_page" THEN 0
                                        ELSE naeCurrentPageCount)
        /\ naePc' = NaePageOutcome(answer)
        /\ UNCHANGED <<naeOutput, naeTotalPageCount, naeCurrentPageCount, naeReceived,
                       OthersOfNae>>

InitNae == NaeInit /\ IdleExcept("nae")
NextNae == NaeFirstPage \/ NaeNextPage \/ NaePageFails
SpecNae == InitNae /\ [][NextNae]_vars

\* The events of the event_list of every finding, list after list.
RECURSIVE NaeListed(_)
NaeListed(keys) ==
    IF keys = {} THEN << >>
    ELSE LET k == CHOOSE x \in keys : TRUE
         IN  naeOutput[k] \o NaeListed(keys \ {k})

\* How often the event is in the sequence.
Occurrences(q, e) == Cardinality({i \in 1..Len(q) : q[i] = e})

\* Every event received is exactly once in the event_list of the finding
\* named nae_ plus its name and in no other list, and the lengths of the
\* lists sum to the number of events received.
NaeEventsListedOnce ==
    /\ \A i \in 1..Len(naeReceived) :
          /\ NdiTestPrefix \o naeReceived[i].name \in DOMAIN naeOutput
          /\ Occurrences(naeOutput[NdiTestPrefix \o naeReceived[i].name], naeReceived[i]) = 1
          /\ Occurrences(NaeListed(DOMAIN naeOutput), naeReceived[i]) = 1
    /\ Len(NaeListed(DOMAIN naeOutput)) = Len(naeReceived)

\* The pages 0 .. n-1 in increasing order.
PagesUpTo(n) == [i \in 1..n |-> i - 1]

\* C22 as stated: with a declared total_page_count N the pages 0..N-1 are
\* requested, each exactly once and in increasing order, and every event
\* returned on any page appears exactly once in the event_list of the
\* finding named nae_ plus its event name: the lengths of the lists sum to
\* the number of events received.
C22_PagesAndEventsExactlyOnce ==
    /\ naePc \in {"pages", "returned_true"} =>
          /\ Len(naePages) <= naeTotalPageCount
          /\ naePages = SubSeq(PagesUpTo(naeTotalPageCount), 1, Len(naePages))
    /\ naePc = "returned_true" => naePages = PagesUpTo(naeTotalPageCount)
    /\ NaeEventsListedOnce

\* C22 amended: page 0 is the request that brings N, so it is requested
\* also when N = 0: the pages 0..max(N,1)-1 are requested, each exactly
\* once and in increasing order, and every event returned on any page
\* appears exactly once in the event_list of the finding named nae_ plus
\* its event name: the lengths of the lists sum to the number of events
\* received.
C22_PagesFromZeroAndEventsExactlyOnce ==
    LET pages == IF naeTotalPageCount < 1 THEN 1 ELSE naeTotalPageCount
    IN  /\ naePc \in {"pages", "returned_true"} =>
              /\ Len(naePages) <= pages
              /\ naePages = SubSeq(PagesUpTo(pages), 1, Len(naePages))
        /\ naePc = "returned_true" => naePages = PagesUpTo(pages)
        /\ NaeEventsListedOnce

\* Every page of the largest page count has been handled, the same event
\* name having come on two pages and twice on one page.
C22_Witness ==
    /\ naePc = "returned_true"
    /\ naeTotalPageCount = MaxNaePages
    /\ Len(naePages) = MaxNaePages
    /\ \E k \in DOMAIN naeOutput :
          /\ Len(naeOutput[k]) >= 3
          /\ \E i, j \in 1..Len(naeOutput[k]) :
                i # j /\ naeOutput[k][i].page = naeOutput[k][j].page
          /\ \E i, j \in 1..Len(naeOutput[k]) :
                naeOutput[k][i].page # naeOutput[k][j].page

\* The run has ended without a result.
NaeRunEnded == naePc \in {"fatal_transport", "crash"}

MaxFindings == 2

\* A key the dict does not have.
NoKey == "<no key>"

\* __ignore_findings
IgnoreFindings ==
    {"vetR_analysis_enabled", "nae_analysis_enabled", "ssd_analysis_enabled",
     "main_document", "hw_inventory"}

\* __priority_mapping_schema
PriorityMappingSchema ==
    ("emergency" :> "1 - Critical") @@ ("alert" :> "1 - Critical")
        @@ ("critical" :> "1 - Critical") @@ ("error" :> "2 - Warning")
        @@ ("warning" :> "2 - Warning") @@ ("notice" :> "3 - Informational")
        @@ ("info" :> "3 - Informational") @@ ("debug" :> "99 - Debug")
        @@ ("ok" :> "0 - Health") @@ ("invisible" :> "100 - Invisible")

\* The lower-case letter of each upper-case letter.
LowerCaseOf ==
    LET upper == "ABCDEFGHIJKLMNOPQRSTUVWXYZ"
        lower == "abcdefghijklmnopqrstuvwxyz"
    IN  [c \in {SubSeq(upper, i, i) : i \in 1..26} |->
            SubSeq(lower, CHOOSE j \in 1..26 : SubSeq(upper, j, j) = c,
                   CHOOSE j \in 1..26 : SubSeq(upper, j, j) = c)]

\* str.lower() of one character.
LowerChar(c) == IF c \in DOMAIN LowerCaseOf THEN LowerCaseOf[c] ELSE c

\* str.lower()
RECURSIVE Lower(_)
Lower(s) ==
    IF Len(s) = 0 THEN ""
    ELSE LowerChar(SubSeq(s, 1, 1)) \o Lower(SubSeq(s, 2, Len(s)))

\* s.startswith(prefix)
StartsWith(s, prefix) ==
    Len(s) >= Len(prefix) /\ SubSeq(s, 1, Len(prefix)) = prefix

\* s.split("_")[0]
RECURSIVE FirstComponent(_)
FirstComponent(s) ==
    IF Len(s) = 0 \/ SubSeq(s, 1, 1) = "_" THEN ""
    ELSE SubSeq(s, 1, 1) \o FirstComponent(SubSeq(s, 2, Len(s)))

\* A record of the findings mapping, by what the function reads of it: the
\* error text, the metadata (no key, None, or a dict), the severity and the
\* affected_count of a metadata dict, and the first headline of the content
\* ("" when the content has none).
Finding(error, metadata, severity, affected, headline) ==
    [error |-> error, metadata |-> metadata, severity |-> severity,
     affected_count |-> affected, headline |-> headline]

\* The error texts the rendering of a finding leaves.
ErrorTexts ==
    {"Template missing 't.md'", "NDI support missing in template 't.md'",
     "Syntax error in Template 't.md' ", "Undefined error while rendering template 't.md'",
     "Template metadata extraction failed"}

\* The severities a metadata dict may carry; the loader gives every scalar
\* as a string.
SeverityCases ==
    {"emergency", "Alert", "CRITICAL", "error", "warning", "notice", "info", "debug", "ok",
     "invisible", "bogus", ""}

\* The records tried: every error, a record without metadata, and rendered
\* findings with every severity and without one, without affected_count,
\* and with a content that has no headline.
FindingCases ==
    {Finding(e, "None", NoKey, NoKey, "") : e \in ErrorTexts}
        \cup {Finding(NoKey, NoKey, NoKey, NoKey, ""), Finding(NoKey, "None", NoKey, NoKey, "")}
        \cup {Finding(NoKey, "dict", s, "3", "Finding") : s \in SeverityCases \cup {NoKey}}
        \cup {Finding(NoKey, "dict", "critical", NoKey, "Finding"),
              Finding(NoKey, "dict", "critical", "3", ""),
              Finding(NoKey, "dict", "bogus", "3", "")}

\* The finding keys tried, one of each source.
FindingKeys ==
    {SsdTestName, VetrTestPrefix \o "fabric_coopStrict", NdiTestPrefix \o "BD_HAS_NO_SUBNET"}

\* "Find tool source"
ItemSource(item) ==
    LET component == FirstComponent(item)
    IN  IF component = "ssd" THEN "1 - ssd"
        ELSE IF component = "vetR" THEN "2 - vetR"
        ELSE IF component = "nae" THEN "3 - nae"
        ELSE "99 - " \o component

\* The priority of a severity the table does not have, taken as debug.
ItemPriorityDefaultingToDebug(finding) ==
    IF finding.severity # NoKey /\ Lower(finding.severity) \in DOMAIN PriorityMappingSchema
    THEN PriorityMappingSchema[Lower(finding.severity)]
    ELSE "99 - Debug"

\* "Find priority": KeyError, of the metadata or of the table, gives "-".
ItemPriority(finding) ==
    IF finding.severity # NoKey /\ Lower(finding.severity) \in DOMAIN PriorityMappingSchema
    THEN PriorityMappingSchema[Lower(finding.severity)]
    ELSE "-"

\* "Find affected count"
ItemAffectedCount(finding) ==
    IF finding.affected_count # NoKey THEN finding.affected_count ELSE "-"

\* __finding_details
FindingDetails(item, finding) ==
    [name |-> item, headline |-> finding.headline, tool_source |-> ItemSource(item),
     priority |-> ItemPriority(finding), affected_count |-> ItemAffectedCount(finding)]

\* findings["main_document"][bucket].append(item), the list created if absent.
AppendTo(main, bucket, item) ==
    (bucket :> Append(IF bucket \in DOMAIN main THEN main[bucket] ELSE << >>, item)) @@ main

\* The branch for a finding with an error: the test for a missing template
\* is an if of its own, the other three are one if/elif chain.
WithError(main, item, error) ==
    LET first == IF StartsWith(error, "Template missing")
                 THEN AppendTo(main, "missing_templates", item) ELSE main
    IN  IF StartsWith(error, "NDI support missing in template")
        THEN AppendTo(first, "templates_missing_ndi_support", item)
        ELSE IF StartsWith(error, "Syntax error in Template")
        THEN AppendTo(first, "syntax_error_templates", item)
        ELSE IF StartsWith(error, "Undefined error while rendering template")
        THEN AppendTo(first, "undefined_error_templates", item)
        ELSE first

\* The mappings from at most MaxFindings finding keys to records.
FindingMappings ==
    UNION {[ks -> FindingCases] :
             ks \in {k \in SUBSET FindingKeys : Cardinality(k) <= MaxFindings}}

\* The findings in any order, then a flag and main_document as the
\* combination adds them after the findings.
SumInit ==
    /\ sumFindings \in FindingMappings
    /\ sumOrder \in {o \o <<"vetR_analysis_enabled", "main_document">> :
                        o \in Orderings(DOMAIN sumFindings)}
    /\ sumIdx = 1
    /\ sumPc = "running"
    /\ sumTable = << >>
    /\ sumMain = << >>

\* The item of the running iteration of "for __item in findings".
SumItem == sumOrder[sumIdx]

\* An iteration for an entry of the ignore list.
SumSkipIgnored ==
    /\ sumPc = "running"
    /\ sumIdx <= Len(sumOrder)
    /\ SumItem \in IgnoreFindings
    /\ sumIdx' = sumIdx + 1
    /\ UNCHANGED <<sumFindings, sumOrder, sumPc, sumTable, sumMain, OthersOfSum>>

\* An iteration for a finding that has an error.
SumErrorItem ==
    /\ sumPc = "running"
    /\ sumIdx <= Len(sumOrder)
    /\ SumItem \notin IgnoreFindings
    /\ sumFindings[SumItem].error # NoKey
    /\ sumMain' = WithError(sumMain, SumItem, sumFindings[SumItem].error)
    /\ sumIdx' = sumIdx + 1
    /\ UNCHANGED <<sumFindings, sumOrder, sumPc, sumTable, OthersOfSum>>

\* An iteration for a finding without error: without a metadata key
\* (KeyError, caught) or with metadata None nothing is listed; with a
\* metadata dict the details are appended, unless the content has no
\* headline: IndexError at __item_headline_entries[0], which nothing catches.
SumMetadataItem ==
    /\ sumPc = "running"
    /\ sumIdx <= Len(sumOrder)
    /\ SumItem \notin IgnoreFindings
    /\ sumFindings[SumItem].error = NoKey
    /\ IF sumFindings[SumItem].metadata # "dict"
       THEN sumIdx' = sumIdx + 1 /\ UNCHANGED <<sumPc, sumTable>>
       ELSE IF sumFindings[SumItem].headline = ""
       THEN sumPc' = "crash" /\ UNCHANGED <<sumIdx, sumTable>>
       ELSE /\ sumTable' = Append(sumTable, FindingDetails(SumItem, sumFindings[SumItem]))
            /\ sumIdx' = sumIdx + 1
            /\ UNCHANGED sumPc
    /\ UNCHANGED <<sumFindings, sumOrder, sumMain, OthersOfSum>>

\* findings["main_document"]["summary_table"] = __summary_table; return findings
SumReturn ==
    /\ sumPc = "running"
    /\ sumIdx > Len(sumOrder)
    /\ sumMain' = ("summary_table" :> sumTable) @@ sumMain
    /\ sumPc' = "returned"
    /\ UNCHANGED <<sumFindings, sumOrder, sumIdx, sumTable, OthersOfSum>>

InitSum == SumInit /\ IdleExcept("sum")
NextSum == SumSkipIgnored \/ SumErrorItem \/ SumMetadataItem \/ SumReturn
SpecSum == InitSum /\ [][NextSum]_vars

\* The digits a string starts with.
RECURSIVE LeadingDigits(_)
LeadingDigits(s) ==
    IF Len(s) > 0 /\ \E d \in 0..9 : Str(d) = SubSeq(s, 1, 1)
    THEN SubSeq(s, 1, 1) \o LeadingDigits(SubSeq(s, 2, Len(s)))
    ELSE ""

\* The rank of a severity of the schema: the number its priority starts
\* with, a smaller number being a higher rank.
SeverityRank(severity) == ParseDecimal(LeadingDigits(PriorityMappingSchema[severity]))

\* The findings the loop has gone through that have a metadata dict and no
\* error.
SumRenderedSoFar ==
    {sumOrder[i] : i \in {j \in 1..(sumIdx - 1) :
        /\ sumOrder[j] \notin IgnoreFindings
        /\ sumFindings[sumOrder[j]].error = NoKey
        /\ sumFindings[sumOrder[j]].metadata = "dict"}}

\* The priority the table of the claim gives the severities it names.
PriorityByClaim ==
    [s \in {"emergency", "alert", "critical"} |-> "1 - Critical"]
        @@ [s \in {"error", "warning"} |-> "2 - Warning"]
        @@ [s \in {"notice", "info"} |-> "3 - Informational"]
        @@ ("debug" :> "99 - Debug")

\* The severity is missing or is none the schema has.
Unrecognised(severity) ==
    severity = NoKey \/ Lower(severity) \notin DOMAIN PriorityMappingSchema

\* Among the severities the claim names, emergency, alert and critical have
\* the highest rank, error and warning the next, then notice and info, then
\* debug, below which the schema has one more rank.
RanksAsClaimed ==
    /\ \A s \in DOMAIN PriorityByClaim : SeverityRank("critical") <= SeverityRank(s)
    /\ \A s \in {"emergency", "alert"} : SeverityRank(s) = SeverityRank("critical")
    /\ SeverityRank("critical") < SeverityRank("error")
    /\ SeverityRank("error") = SeverityRank("warning")
    /\ SeverityRank("error") < SeverityRank("notice")
    /\ SeverityRank("notice") = SeverityRank("info")
    /\ SeverityRank("notice") < SeverityRank("debug")
    /\ Cardinality({SeverityRank(s) : s \in DOMAIN PriorityMappingSchema}
                      \ 0..SeverityRank("debug")) = 1

LeadingRank(text) ==
    IF LeadingDigits(text) = "" THEN 1000 ELSE ParseDecimal(LeadingDigits(text))

\* The entry comes no later than the other by priority rank and, within
\* equal priority, by source rank.
RanksNoLater(entry, other) ==
    \/ LeadingRank(entry.priority) < LeadingRank(other.priority)
    \/ /\ LeadingRank(entry.priority) = LeadingRank(other.priority)
       /\ LeadingRank(entry.tool_source) <= LeadingRank(other.tool_source)

\* C31: the summary list the function returns is ordered by priority rank
\* and, within equal priority, by source rank, whatever the order of the keys
\* of the findings mapping.
C31_SummaryOrderedByPriorityThenSource ==
    sumPc = "returned" =>
        \A i, j \in 1..Len(sumMain["summary_table"]) :
            i < j => RanksNoLater(sumMain["summary_table"][i], sumMain["summary_table"][j])

\* The failure buckets of main_document and the beginning of the error texts
\* of the category each is for.
FailureBuckets ==
    ("missing_templates" :> "Template missing")
        @@ ("templates_missing_ndi_support" :> "NDI support missing in template")
        @@ ("syntax_error_templates" :> "Syntax error in Template")
        @@ ("undefined_error_templates" :> "Undefined error while rendering template")

\* The places (bucket, position) at which main_document records the item.
BucketPlaces(item) ==
    {<<b, i>> \in UNION {{<<c, n>> : n \in 1..Len(sumMain[c])} :
                            c \in DOMAIN FailureBuckets \cap DOMAIN sumMain} :
        sumMain[b][i] = item}

\* C32: once the function has returned, every finding that carries an error
\* is absent from the summary table and is recorded in exactly one failure
\* bucket of main_document, once, and that bucket is the one of a category
\* its error text begins with.
C32_ErroredFindingInExactlyOneBucket ==
    sumPc = "returned" =>
        \A item \in DOMAIN sumFindings :
            sumFindings[item].error # NoKey =>
                /\ \A i \in 1..Len(sumTable) : sumTable[i].name # item
                /\ Cardinality(BucketPlaces(item)) = 1
                /\ \A place \in BucketPlaces(item) :
                      StartsWith(sumFindings[item].error, FailureBuckets[place[1]])

(***************************************************************************)
(* export_findings (json.dump), import_findings (read_json, json.load)     *)
(***************************************************************************)

\* Bound on the nesting of lists and dicts below a key of combined_findings.
MaxNesting == 1

\* The Python values combined_findings is built of: None, bool, str, int,
\* list, and dict with str keys (a sequence of <<key, value>> in the order of
\* the keys).
PyNone == [t |-> "None", v |-> "None"]
PyBool(b) == [t |-> "bool", v |-> b]
PyStr(s) == [t |-> "str", v |-> s]
PyInt(n) == [t |-> "int", v |-> n]
PyList(items) == [t |-> "list", v |-> items]
PyDict(pairs) == [t |-> "dict", v |-> pairs]

\* A token of a JSON text.
Token(kind, text) == [k |-> kind, s |-> text]
Mark(kind) == Token(kind, "")

\* The tokens of the items, a comma between two of them.
RECURSIVE Joined(_)
Joined(items) ==
    IF Len(items) = 0 THEN << >>
    ELSE IF Len(items) = 1 THEN items[1]
    ELSE items[1] \o <<Mark(",")>> \o Joined(Tail(items))

\* The token of a scalar with True and False written as str() gives them.
JsonScalarBoolAsText(value) ==
    IF value.t = "None" THEN Mark("null")
    ELSE IF value.t = "bool" THEN Token("string", IF value.v THEN "True" ELSE "False")
    ELSE IF value.t = "str" THEN Token("string", value.v)
    ELSE Token("number", Str(value.v))

\* The token json.dump writes for a scalar: None is written null, True and
\* False true and false, a str as a string, an int in decimal digits.
JsonScalar(value) ==
    IF value.t = "None" THEN Mark("null")
    ELSE IF value.t = "bool" THEN Mark(IF value.v THEN "true" ELSE "false")
    ELSE IF value.t = "str" THEN Token("string", value.v)
    ELSE Token("number", Str(value.v))

\* json.dump: a list is written as an array and a dict as an object with
\* its keys as strings, in the order of the dict.
RECURSIVE JsonDump(_)
JsonDump(value) ==
    IF value.t \notin {"list", "dict"} THEN <<JsonScalar(value)>>
    ELSE IF value.t = "list"
    THEN <<Mark("[")>> \o Joined([i \in 1..Len(value.v) |-> JsonDump(value.v[i])])
             \o <<Mark("]")>>
    ELSE <<Mark("{")>>
             \o Joined([i \in 1..Len(value.v) |->
                           <<Token("string", value.v[i][1]), Mark(":")>>
                               \o JsonDump(value.v[i][2])])
             \o <<Mark("}")>>

\* d[key] = value on a dict given as pairs: a key already present keeps its
\* place.
PairsSet(pairs, key, value) ==
    IF \E i \in 1..Len(pairs) : pairs[i][1] = key
    THEN [i \in 1..Len(pairs) |-> IF pairs[i][1] = key THEN <<key, value>> ELSE pairs[i]]
    ELSE Append(pairs, <<key, value>>)

\* json.load: the value the tokens begin with and the tokens after it.
RECURSIVE JsonValue(_)
RECURSIVE JsonElements(_, _)
RECURSIVE JsonMembers(_, _)
JsonValue(tokens) ==
    LET head == tokens[1]
        rest == Tail(tokens)
    IN  IF head.k = "null" THEN [value |-> PyNone, rest |-> rest]
        ELSE IF head.k = "true" THEN [value |-> PyBool(TRUE), rest |-> rest]
        ELSE IF head.k = "false" THEN [value |-> PyBool(FALSE), rest |-> rest]
        ELSE IF head.k = "string" THEN [value |-> PyStr(head.s), rest |-> rest]
        ELSE IF head.k = "number" THEN [value |-> PyInt(ParseDecimal(head.s)), rest |-> rest]
        ELSE IF head.k = "[" THEN JsonElements(rest, << >>)
        ELSE JsonMembers(rest, << >>)

\* The elements of an array after "[" or after an element.
JsonElements(tokens, items) ==
    IF tokens[1].k = "]" THEN [value |-> PyList(items), rest |-> Tail(tokens)]
    ELSE LET element == JsonValue(IF tokens[1].k = "," THEN Tail(tokens) ELSE tokens)
         IN  JsonElements(element.rest, Append(items, element.value))

\* The members of an object after "{" or after a member.
JsonMembers(tokens, pairs) ==
    IF tokens[1].k = "}" THEN [value |-> PyDict(pairs), rest |-> Tail(tokens)]
    ELSE LET member == IF tokens[1].k = "," THEN Tail(tokens) ELSE tokens
             element == JsonValue(SubSeq(member, 3, Len(member)))
         IN  JsonMembers(element.rest, PairsSet(pairs, member[1].s, element.value))

\* json.load of a whole document.
JsonLoad(tokens) == JsonValue(tokens).value

\* The scalars tried.
PyScalars == {PyNone, PyBool(TRUE), PyBool(FALSE), PyStr(""), PyStr("N/A"), PyInt(0), PyInt(12)}

\* The values with lists and dicts nested at most depth deep.
RECURSIVE PyValues(_)
PyValues(depth) ==
    IF depth = 0 THEN PyScalars
    ELSE LET below == PyValues(depth - 1)
         IN  below
                 \cup {PyList(<< >>), PyDict(<< >>)}
                 \cup {PyList(<<a>>) : a \in below}
                 \cup {PyList(<<a, PyStr("x")>>) : a \in below}
                 \cup {PyDict(<<<<"metadata", a>>>>) : a \in below}
                 \cup {PyDict(<<<<"content", PyStr("# F")>>, <<"metadata", a>>>>) : a \in below}

\* combined_findings of the exporting run: a finding, a flag, main_document
\* and hw_inventory in either order of the last two.
ExpInit ==
    /\ expValue \in
          {PyDict(<<<<"ssd_faults", a>>, <<"ssd_analysis_enabled", PyBool(TRUE)>>>> \o rest) :
              a \in PyValues(MaxNesting),
              rest \in UNION {{<<<<"main_document", b>>, <<"hw_inventory", c>>>>,
                               <<<<"hw_inventory", c>>, <<"main_document", b>>>>} :
                                 b \in {PyDict(<< >>), PyDict(<<<<"customer_name", PyStr("c")>>>>)},
                                 c \in PyScalars \cup {PyList(<<PyDict(<<<<"id", PyInt(1)>>>>)>>)}}}
    /\ expDoc = << >>
    /\ expImported = PyNone
    /\ expPc = "exporting"

\* "Export combined findings in json format": json.dump(combined_findings, f)
ExpExport ==
    /\ expPc = "exporting"
    /\ expDoc' = JsonDump(expValue)
    /\ expPc' = "exported"
    /\ UNCHANGED <<expValue, expImported, OthersOfExp>>

\* "Import findings from previous generated JSON" of a later run:
\* combined_findings = read_json(filename_finding_json)
ExpImport ==
    /\ expPc = "exported"
    /\ expImported' = JsonLoad(expDoc)
    /\ expPc' = "imported"
    /\ UNCHANGED <<expValue, expDoc, OthersOfExp>>

\* read_json of a document that was never written: FileNotFoundError, exit(1)
ExpImportMissing ==
    /\ expPc = "exporting"
    /\ expPc' = "exit_missing"
    /\ UNCHANGED <<expValue, expDoc, expImported, OthersOfExp>>

InitExp == ExpInit /\ IdleExcept("exp")
NextExp == ExpExport \/ ExpImport \/ ExpImportMissing
SpecExp == InitExp /\ [][NextExp]_vars

\* C33: the mapping read back from the exported document is the mapping that
\* was exported: the same keys in the same order, each with the same record.
C33_ExportImportLossless ==
    expPc = "imported" =>
        /\ expImported = expValue
        /\ [i \in 1..Len(expImported.v) |-> expImported.v[i][1]]
              = [i \in 1..Len(expValue.v) |-> expValue.v[i][1]]
        /\ \A i \in 1..Len(expValue.v) : expImported.v[i][2] = expValue.v[i][2]

\* A mapping with a flag, None, a nested dict and a list was exported and
\* read back.
C33_Witness ==
    /\ expPc = "imported"
    /\ expDoc # << >>
    /\ expImported.t = "dict"
    /\ \E i, j \in 1..Len(expImported.v) :
          /\ expImported.v[i][2].t = "dict"
          /\ expImported.v[i][2].v # << >>
          /\ expImported.v[j][2].t = "list"
          /\ expImported.v[j][2].v # << >>

(***************************************************************************)
(* vetr_render_actions, nae_render_smart_events: the ignore list           *)
(***************************************************************************)

\* Bound on the number of findings handed to a renderer.
MaxRendered == 2

\* "_".join(s.split("_")[1:]): the text after the first "_".
RECURSIVE AfterFirstComponent(_)
AfterFirstComponent(s) ==
    IF Len(s) = 0 THEN ""
    ELSE IF SubSeq(s, 1, 1) = "_" THEN SubSeq(s, 2, Len(s))
    ELSE AfterFirstComponent(SubSeq(s, 2, Len(s)))

\* The renderer generate_audit_report calls for the findings of a source:
\* nae_render_smart_events for NAE/NDI, vetr_render_actions for vetR and SSD.
RendererOf(source) ==
    IF source = "nae" THEN "nae_render_smart_events" ELSE "vetr_render_actions"

\* The key of ignore_list a renderer reads.
IgnoreKeyOf(renderer) ==
    IF renderer = "nae_render_smart_events" THEN "nae" ELSE "vetR"

\* The name a renderer looks up in the ignore list: nae_render_smart_events
\* the event name without the tool name, vetr_render_actions the action key.
LookedUp(renderer, key) ==
    IF renderer = "nae_render_smart_events" THEN AfterFirstComponent(key) ELSE key

\* The finding keys of each source.
RenderKeys ==
    [vetR |-> {"vetR_fabric_coopStrict", "vetR_tenant_epg_x"},
     nae |-> {"nae_BD_HAS_NO_SUBNET", "nae_EPG_X"},
     ssd |-> {"ssd_faults"}]

\* The names an ignore list can hold under each source.
IgnoreNames ==
    [vetR |-> {{}, {"fabric_coopStrict"}, {"vetR_fabric_coopStrict"}},
     nae |-> {{}, {"BD_HAS_NO_SUBNET"}, {"nae_EPG_X"}},
     ssd |-> {{}, {"faults"}}]

\* The findings of a source are handed to its renderer with the ignore list
\* read from the yaml file: a mapping with the three sources, or one that
\* has no entry for vetR.
IgnInit ==
    /\ ignSource \in {"vetR", "nae", "ssd"}
    /\ ignList \in
          {[vetR |-> v, nae |-> n, ssd |-> s] :
               v \in IgnoreNames.vetR, n \in IgnoreNames.nae, s \in IgnoreNames.ssd}
          \cup {[nae |-> n, ssd |-> s] : n \in IgnoreNames.nae, s \in IgnoreNames.ssd}
    /\ ignKeys \in UNION {Orderings(keys) :
                            keys \in {k \in SUBSET RenderKeys[ignSource] :
                                         Cardinality(k) <= MaxRendered}}
    /\ ignIdx = 1
    /\ ignOutput = << >>
    /\ ignPc = "running"

\* ignore_list["vetR"] of a list without that entry: KeyError
IgnKeyError ==
    /\ ignPc = "running"
    /\ ignIdx <= Len(ignKeys)
    /\ IgnoreKeyOf(RendererOf(ignSource)) \notin DOMAIN ignList
    /\ ignPc' = "crash"
    /\ UNCHANGED <<ignSource, ignList, ignKeys, ignIdx, ignOutput, OthersOfIgn>>

\* "Check if action should be ignored": continue
IgnSkip ==
    /\ ignPc = "running"
    /\ ignIdx <= Len(ignKeys)
    /\ LET renderer == RendererOf(ignSource)
       IN  /\ IgnoreKeyOf(renderer) \in DOMAIN ignList
           /\ LookedUp(renderer, ignKeys[ignIdx]) \in ignList[IgnoreKeyOf(renderer)]
    /\ ignIdx' = ignIdx + 1
    /\ UNCHANGED <<ignSource, ignList, ignKeys, ignOutput, ignPc, OthersOfIgn>>

\* The template of the finding is rendered, with or without success, and
\* kept in __rendered_output.
IgnRender ==
    /\ ignPc = "running"
    /\ ignIdx <= Len(ignKeys)
    /\ LET renderer == RendererOf(ignSource)
       IN  /\ IgnoreKeyOf(renderer) \in DOMAIN ignList
           /\ LookedUp(renderer, ignKeys[ignIdx]) \notin ignList[IgnoreKeyOf(renderer)]
    /\ \E success \in BOOLEAN :
          ignOutput' = DictSet(ignOutput, ignKeys[ignIdx],
                               Rendered(ignSource, ignKeys[ignIdx], success))
    /\ ignIdx' = ignIdx + 1
    /\ UNCHANGED <<ignSource, ignList, ignKeys, ignPc, OthersOfIgn>>

\* return __rendered_output
IgnReturn ==
    /\ ignPc = "running"
    /\ ignIdx > Len(ignKeys)
    /\ ignPc' = "returned"
    /\ UNCHANGED <<ignSource, ignList, ignKeys, ignIdx, ignOutput, OthersOfIgn>>

InitIgn == IgnInit /\ IdleExcept("ign")
NextIgn == IgnKeyError \/ IgnSkip \/ IgnRender \/ IgnReturn
SpecIgn == InitIgn /\ [][NextIgn]_vars

\* C34: of the findings of a source, those whose name without the source
\* prefix is listed under that source in the ignore list are omitted from
\* the rendered findings, and all others are kept.
C34_ListedSuffixOmittedOthersKept ==
    (ignPc = "returned" /\ ignSource \in DOMAIN ignList) =>
        \A i \in 1..Len(ignKeys) :
            ignKeys[i] \in DOMAIN ignOutput
                <=> AfterFirstComponent(ignKeys[i]) \notin ignList[ignSource]

(***************************************************************************)
(* generate_audit_report: the render step around                           *)
(* create_findings_summary_table                                           *)
(***************************************************************************)

\* today.strftime("%B %d, %Y")
Today == "November 04, 2026"

\* A value of combined_findings["main_document"]: the dict the combination
\* or the imported document gives, or a str.
MainDict(fields) == [t |-> "dict", v |-> fields]
MainStr(text) == [t |-> "str", v |-> text]

\* The records of the findings tried: a missing template, a rendered finding
\* and one whose content has no headline.
RndFindingCases ==
    {Finding("Template missing 't.md'", "None", NoKey, NoKey, ""),
     Finding(NoKey, "dict", "critical", "3", "Finding"),
     Finding(NoKey, "dict", "info", NoKey, "")}

\* main_document as the combination leaves it (both names, with or without
\* the events without details) and as an imported document may have it:
\* without the engineer name, or without both names.
MainDocumentCases ==
    {MainDict(("customer_name" :> "customer") @@ ("engineer_name" :> "engineer")),
     MainDict(("customer_name" :> "customer") @@ ("engineer_name" :> "engineer")
                  @@ ("nae_empty_events" :> <<"nae_NO_DETAILS">>)),
     MainDict("customer_name" :> "customer"),
     MainDict(<< >>)}

\* The error texts the summary has a bucket for begin with one of these.
BucketedErrors ==
    {"Template missing", "NDI support missing in template", "Syntax error in Template",
     "Undefined error while rendering template"}

\* "for __item in findings" of create_findings_summary_table over the keys
\* of order: acc holds main_document, __summary_table and the exception
\* raised, if any. Item assignment on a main_document that is a str raises
\* TypeError.
RECURSIVE SummaryLoop(_, _, _)
SummaryLoop(findings, order, acc) ==
    IF Len(order) = 0 \/ acc.raised # "" THEN acc
    ELSE LET item == Head(order)
             finding == findings[item]
         IN  SummaryLoop(findings, Tail(order),
                 IF item \in IgnoreFindings THEN acc
                 ELSE IF finding.error # NoKey
                 THEN IF \A prefix \in BucketedErrors : ~StartsWith(finding.error, prefix)
                      THEN acc
                      ELSE IF acc.main.t = "str"
                      THEN [acc EXCEPT !.raised = "TypeError"]
                      ELSE [acc EXCEPT !.main = MainDict(WithError(@.v, item, finding.error))]
                 ELSE IF finding.metadata # "dict" THEN acc
                 ELSE IF finding.headline = "" THEN [acc EXCEPT !.raised = "IndexError"]
                 ELSE [acc EXCEPT !.table = Append(@, FindingDetails(item, finding))])

\* create_findings_summary_table(findings): the loop and the assignment of
\* the summary table.
CreateFindingsSummaryTable(findings, order) ==
    LET acc == SummaryLoop(findings, order,
                           [main |-> findings["main_document"], table |-> << >>, raised |-> ""])
    IN  IF acc.raised # "" THEN acc
        ELSE IF acc.main.t = "str" THEN [acc EXCEPT !.raised = "TypeError"]
        ELSE [acc EXCEPT !.main = MainDict(DictSet(@.v, "summary_table", acc.table))]

\* The render step begins with the findings as combined or as imported.
RndInit ==
    /\ rndCombined \in
          {DictSet(DictSet(f, "vetR_analysis_enabled", Flag(TRUE)), "main_document", main) :
              f \in UNION {[ks -> RndFindingCases] :
                             ks \in SUBSET {SsdTestName, NdiTestPrefix \o "BD_HAS_NO_SUBNET"}},
              main \in MainDocumentCases}
    /\ rndOrder \in {o \o <<"vetR_analysis_enabled", "main_document">> :
                        o \in Orderings(DOMAIN rndCombined
                                            \ {"vetR_analysis_enabled", "main_document"})}
    /\ rndParams \in [customer_name : {"", "ACME"}, engineer_name : {"", "Kim"}]
    /\ rndEntry = rndCombined
    /\ rndPc = "date"

\* "Add current date to findings"
RndDate ==
    /\ rndPc = "date"
    /\ rndCombined' =
          [rndCombined EXCEPT !["main_document"] = MainDict(DictSet(@.v, "date", Today))]
    /\ rndPc' = "names"
    /\ UNCHANGED <<rndOrder, rndParams, rndEntry, OthersOfRnd>>

\* "Check if Customer and Engineer name": a name main_document lacks is
\* taken from the parameters if given there; for the customer it is set as
\* a key of main_document, for the engineer it is assigned to
\* combined_findings["main_document"].
RndNames ==
    /\ rndPc = "names"
    /\ LET main == rndCombined["main_document"]
           customer ==
               IF "customer_name" \notin DOMAIN main.v /\ rndParams.customer_name # ""
               THEN MainDict(DictSet(main.v, "customer_name", rndParams.customer_name))
               ELSE main
           engineer ==
               IF "engineer_name" \notin DOMAIN customer.v /\ rndParams.engineer_name # ""
               THEN MainStr(rndParams.engineer_name)
               ELSE customer
       IN  rndCombined' = [rndCombined EXCEPT !["main_document"] = engineer]
    /\ rndPc' = "summary"
    /\ UNCHANGED <<rndOrder, rndParams, rndEntry, OthersOfRnd>>

\* "Create findings priority table":
\* combined_findings = create_findings_summary_table(combined_findings)
RndSummary ==
    /\ rndPc = "summary"
    /\ LET result == CreateFindingsSummaryTable(rndCombined, rndOrder)
       IN  /\ rndCombined' = [rndCombined EXCEPT !["main_document"] = result.main]
           /\ rndPc' = IF result.raised # "" THEN "crash" ELSE "rendering"
    /\ UNCHANGED <<rndOrder, rndParams, rndEntry, OthersOfRnd>>

InitRnd == RndInit /\ IdleExcept("rnd")
NextRnd == RndDate \/ RndNames \/ RndSummary
SpecRnd == InitRnd /\ [][NextRnd]_vars

\* C35: through the render step and create_findings_summary_table every
\* record other than main_document stays as it was, and main_document stays
\* the same mapping with every field it had, unchanged: keys are only added.
C35_SummarizingOnlyAddsKeys ==
    \A key \in DOMAIN rndEntry :
        /\ key \in DOMAIN rndCombined
        /\ IF key # "main_document" THEN rndCombined[key] = rndEntry[key]
           ELSE /\ rndCombined[key].t = "dict"
                /\ \A field \in DOMAIN rndEntry[key].v :
                      /\ field \in DOMAIN rndCombined[key].v
                      /\ rndCombined[key].v[field] = rndEntry[key].v[field]

\* C36: a monitoring whose job is listed after at most five polls without it
\* (variant B) or on every poll (variant A), and is reported complete in the
\* end, ends with success.
C36_MonitorTerminatesWithSuccess == (monPc = "polling") ~> (monPc = "done")

\* Variant B returned after five polls without the job, the job listed from
\* the sixth and reported complete later.
C36_Witness ==
    /\ monVersion = "ndi"
    /\ monPc = "done"
    /\ monFirstSeen = MaxAbsentPolls + 1
    /\ monPolls > monFirstSeen
    /\ monLastStatus = "COMPLETE"

\* C37: the loop over the summary pages moves on to the next page after
\* every request, also after a page without entries: no offset is requested
\* twice (so the paging ends for every finite declared total).
C37_SummaryOffsetNeverRequestedTwice ==
    \A i, j \in 1..Len(ndiSummaryOffsets) :
        i # j => ndiSummaryOffsets[i] # ndiSummaryOffsets[j]

\* No element of the sequence occurs in it twice.
NoRepetition(list) == \A i, j \in 1..Len(list) : i # j => list[i] # list[j]

\* C38: in the result of ssd_analyze_output no node is in the critical list
\* and in the major list, and no node is twice in either of them.
C38_CriticalAndMajorDisjoint ==
    (ssdPc = "returned" /\ SsdTestName \in DOMAIN ssdOutput) =>
        /\ Range(ssdOutput[SsdTestName].critical) \cap Range(ssdOutput[SsdTestName].major) = {}
        /\ NoRepetition(ssdOutput[SsdTestName].critical)
        /\ NoRepetition(ssdOutput[SsdTestName].major)

(***************************************************************************)
(* nae_retrieve_smart_events and the unpacking of its result in            *)
(* generate_audit_report                                                   *)
(***************************************************************************)

\* A tuple of Python values.
PyTuple(items) == [t |-> "tuple", v |-> items]

\* No value yet.
NotYet == [t |-> "not yet", v |-> ""]

\* a, b, ... = value with count names on the left: the items of a tuple or
\* list and the keys of a dict are bound when there are exactly count of
\* them, every other value raises (ValueError, or TypeError for a value
\* that cannot be iterated).
CanUnpack(value, count) ==
    value.t \in {"tuple", "list", "dict", "str"} /\ Len(value.v) = count

\* The items the names are bound to: of a dict its keys.
Unpacked(value) ==
    IF value.t = "dict" THEN [i \in 1..Len(value.v) |-> PyStr(value.v[i][1])]
    ELSE value.v

\* The event names of the findings tried.
RetEventNames == <<"nae_BD_HAS_NO_SUBNET", "nae_EPG_X", "nae_VRF_Y">>

\* The names of the set, in the order of RetEventNames.
NamesIn(set) == SelectSeq(RetEventNames, LAMBDA name : name \in set)

\* The finding sets: a dict from event names to their details.
RetFindings ==
    {PyDict([i \in 1..Len(NamesIn(set)) |-> <<NamesIn(set)[i], PyStr("details")>>]) :
        set \in SUBSET Range(RetEventNames)}

\* The lists of events without details.
RetEmptyEvents ==
    {PyList(<< >>), PyList(<<PyStr("nae_NO_DETAILS")>>), PyList(<<PyStr("nae_OTHER")>>),
     PyList(<<PyStr("nae_NO_DETAILS"), PyStr("nae_OTHER")>>)}

\* return (False, "")
Failure == PyTuple(<<PyBool(FALSE), PyStr("")>>)

\* What each method of nae_session can return.
FabricAnswers == {PyTuple(<<PyBool(TRUE), PyStr("fabric")>>), Failure}
EpochAnswers == {PyTuple(<<PyBool(TRUE), PyStr("epoch")>>), Failure}
NaeEventAnswers == {PyTuple(<<PyBool(TRUE), f>>) : f \in RetFindings} \cup {Failure}
NdiEventAnswers ==
    {PyTuple(<<PyBool(TRUE), f, e>>) : f \in RetFindings, e \in RetEmptyEvents}
        \cup {PyTuple(<<PyBool(TRUE), PyDict(<< >>)>>), Failure}

RetInit ==
    /\ retVersion \in {"nae", "ndi"}
    /\ retPc = "fabric"
    /\ retAnswer = NotYet
    /\ retResult = NotYet
    /\ retCaller = NotYet

\* "Get NAE fabric ID", "Get fabric name": exit(1) without success.
RetFabric ==
    /\ retPc = "fabric"
    /\ \E answer \in FabricAnswers :
          /\ retAnswer' = answer
          /\ retPc' = IF ~answer.v[1].v THEN "exit"
                      ELSE IF retVersion = "nae" THEN "epoch" ELSE "ndi_events"
    /\ UNCHANGED <<retVersion, retResult, retCaller, OthersOfRet>>

\* "Get NAE epoch ID": without success the empty dict is returned.
RetEpoch ==
    /\ retPc = "epoch"
    /\ \E answer \in EpochAnswers :
          /\ retAnswer' = answer
          /\ IF answer.v[1].v
             THEN retPc' = "nae_events" /\ UNCHANGED retResult
             ELSE retPc' = "returned" /\ retResult' = PyDict(<< >>)
    /\ UNCHANGED <<retVersion, retCaller, OthersOfRet>>

\* "Get NAE smart events": return(__nae_findings, []), exit(1) without success.
RetNaeEvents ==
    /\ retPc = "nae_events"
    /\ \E answer \in NaeEventAnswers :
          /\ retAnswer' = answer
          /\ IF answer.v[1].v
             THEN retPc' = "returned" /\ retResult' = PyTuple(<<answer.v[2], PyList(<< >>)>>)
             ELSE retPc' = "exit" /\ UNCHANGED retResult
    /\ UNCHANGED <<retVersion, retCaller, OthersOfRet>>

\* "Get NDI smart events": the answer is unpacked into three names, then
\* return(__ndi_findings, __empty_events), exit(1) without success.
RetNdiEvents ==
    /\ retPc = "ndi_events"
    /\ \E answer \in NdiEventAnswers :
          /\ retAnswer' = answer
          /\ IF ~CanUnpack(answer, 3)
             THEN retPc' = "crash" /\ UNCHANGED retResult
             ELSE IF Unpacked(answer)[1].v
             THEN /\ retPc' = "returned"
                  /\ retResult' = PyTuple(<<Unpacked(answer)[2], Unpacked(answer)[3]>>)
             ELSE retPc' = "exit" /\ UNCHANGED retResult
    /\ UNCHANGED <<retVersion, retCaller, OthersOfRet>>

\* (nae_findings, nae_empty_events) = nae_retrieve_smart_events(...)
RetCallerUnpacks ==
    /\ retPc = "returned"
    /\ IF CanUnpack(retResult, 2)
       THEN retPc' = "unpacked" /\ retCaller' = PyTuple(Unpacked(retResult))
       ELSE retPc' = "caller_crash" /\ UNCHANGED retCaller
    /\ UNCHANGED <<retVersion, retAnswer, retResult, OthersOfRet>>

\* "Skip rendering of NAE templates if no findings was found"
RetCallerGoesOn ==
    /\ retPc = "unpacked"
    /\ retPc' = IF Len(retCaller.v[1].v) = 0 THEN "rendering_skipped" ELSE "rendering"
    /\ UNCHANGED <<retVersion, retAnswer, retResult, retCaller, OthersOfRet>>

InitRet == RetInit /\ IdleExcept("ret")
NextRet ==
    RetFabric \/ RetEpoch \/ RetNaeEvents \/ RetNdiEvents \/ RetCallerUnpacks \/ RetCallerGoesOn
SpecRet == InitRet /\ [][NextRet]_vars

\* C39: unless the run is ended by exit(1), nae_retrieve_smart_events
\* returns, and what it returns is a pair the caller can unpack: the
\* findings and the events without details. This also when variant A finds
\* no epoch and when the summary of variant B reports no results.
C39_CallerAlwaysGetsPair ==
    /\ retPc \notin {"crash", "caller_crash"}
    /\ retPc \in {"returned", "unpacked", "rendering", "rendering_skipped"} =>
          /\ CanUnpack(retResult, 2)
          /\ retResult.t = "tuple"
          /\ retResult.v[1].t = "dict"
          /\ retResult.v[2].t = "list"

(***************************************************************************)
(* get_nested_dict_entries_containing_key: two traversals with the default *)
(* path argument                                                           *)
(***************************************************************************)

\* The structures traversed twice.
TrvInputs ==
    {RecTrue, Chain(1, RecTrue), Chain(2, RecTrue), Chain(2, Scalar("x")),
     ListOf(<<RecTrue, RecFalse>>),
     DictOf(<<"a", "c">>, <<DictOf(<<"b">>, <<RecTrue>>), RecFalse>>),
     DictOf(<<"a", "x", "c">>,
            <<DictOf(<<"b", "d">>, <<RecTrue, RecError>>), Scalar("x"), ListOf(<<RecTrue>>)>>)}

\* The generator is suspended at its yield: the consumer has the pair and
\* the generator has not run on.
Suspended(stack) ==
    /\ stack # << >>
    /\ stack[Len(stack)].var.kind = "dict"
    /\ MarkerKey \in Range(stack[Len(stack)].var.keys)
    /\ stack[Len(stack)].pos = 1

\* The first call: __path is the default list, empty as the def statement
\* made it.
TrvInit ==
    /\ trvData \in TrvInputs
    /\ trvStack = <<Frame(trvData, << >>)>>
    /\ trvPath = << >>
    /\ trvYields = << >>
    /\ trvRound = 1
    /\ trvFirst = [ended |-> "not yet", yields |-> << >>]
    /\ trvPc = "iterating"

\* The consumer asks for the next pair and the generator runs on.
TrvAdvance ==
    /\ trvPc = "iterating"
    /\ trvStack # << >>
    /\ ~AtYield(trvStack)
    /\ trvPath' = Advanced(trvStack, trvPath).path
    /\ trvStack' = Advanced(trvStack, trvPath).stack
    /\ UNCHANGED <<trvData, trvYields, trvRound, trvFirst, trvPc, OthersOfTrv>>

\* yield (__path, __var)
TrvYield ==
    /\ trvPc = "iterating"
    /\ AtYield(trvStack)
    /\ trvYields' = Append(trvYields,
                           [path |-> trvPath, true |-> trvStack[Len(trvStack)].true,
                            record |-> trvStack[Len(trvStack)].var])
    /\ trvStack' = [trvStack EXCEPT ![Len(trvStack)].pos = 1]
    /\ UNCHANGED <<trvData, trvPath, trvRound, trvFirst, trvPc, OthersOfTrv>>

\* The generator is exhausted.
TrvExhausted ==
    /\ trvPc = "iterating"
    /\ trvStack = << >>
    /\ trvPc' = "ended"
    /\ trvFirst' = IF trvRound = 1 THEN [ended |-> "exhausted", yields |-> trvYields]
                   ELSE trvFirst
    /\ UNCHANGED <<trvData, trvStack, trvPath, trvYields, trvRound, OthersOfTrv>>

\* The consumer of the first traversal stops iterating after a pair, as
\* vetr_analyse_output does at its exit(1): the suspended generator is
\* dropped, its frames never run on.
TrvAbandon ==
    /\ trvPc = "iterating"
    /\ trvRound = 1
    /\ Suspended(trvStack)
    /\ trvPc' = "ended"
    /\ trvStack' = << >>
    /\ trvFirst' = [ended |-> "abandoned", yields |-> trvYields]
    /\ UNCHANGED <<trvData, trvPath, trvYields, trvRound, OthersOfTrv>>

\* The function is called again without a path: __path is the same list
\* object, with what the first traversal left in it.
TrvCallAgain ==
    /\ trvPc = "ended"
    /\ trvRound = 1
    /\ trvRound' = 2
    /\ trvStack' = <<Frame(trvData, << >>)>>
    /\ trvYields' = << >>
    /\ trvPc' = "iterating"
    /\ UNCHANGED <<trvData, trvPath, trvFirst, OthersOfTrv>>

InitTrv == TrvInit /\ IdleExcept("trv")
NextTrv ==
    TrvAdvance \/ TrvYield \/ TrvExhausted \/ TrvAbandon \/ TrvCallAgain
SpecTrv == InitTrv /\ [][NextTrv]_vars

\* The path has one component for every key and list position that leads to
\* the record, and no other.
OwnComponentsOnly(yielded) ==
    /\ Len(yielded.path) = Len(yielded.true)
    /\ \A i \in 1..Len(yielded.true) :
          yielded.true[i].tag = "key" => yielded.path[i] = yielded.true[i]

\* C40: a later traversal yields what a traversal of its own yields, with no
\* path component of the earlier one, whether the earlier traversal was
\* exhausted or abandoned: its pairs are those the first traversal gave, as
\* far as that one went.
C40_SuccessiveTraversalsIndependent ==
    trvRound = 2 =>
        /\ \A i \in 1..Len(trvYields) : OwnComponentsOnly(trvYields[i])
        /\ \A i \in 1..Len(trvYields) :
              i <= Len(trvFirst.yields) => trvYields[i] = trvFirst.yields[i]
        /\ trvPc = "ended" => Len(trvYields) >= Len(trvFirst.yields)

====
